---- MODULE Spec2Model ----
(***************************************************************************)
(* Component tag checker (check_component_tags.py and its GUI).            *)
(*                                                                         *)
(* The program compares the tag a CMake manifest declares for a component  *)
(* with the state of the component's directory, and repairs drift by       *)
(* cloning, retagging or reverting.  The directory, its git repository and *)
(* the clock are the program's environment; they are modelled as the       *)
(* variables disk, remote, now and cwd, and every git command the code     *)
(* runs is an operator that reads or changes them the way git does.        *)
(***************************************************************************)
EXTENDS Integers, Sequences, FiniteSets, TLC

\* ------------------------------------------------------------------ bounds
\* Longest history of a modelled repository: commits 0..MaxCommits.
MaxCommits == 2
\* Tagger timestamps range over 0..MaxDate; every commit is authored at 1.
MaxDate == 2

\* `current_time - file_mtime < 3600`
RecentWindow == 3600

Commits == 0..MaxCommits
Dates == 0..MaxDate

\* Tag names in git's ref order (refs/tags is iterated alphabetically).
TagOrder == <<"V1", "V2">>
Tags == {TagOrder[i] : i \in 1..Len(TagOrder)}

\* Python's None, as a tag or a message.
None == "None"

\* What a VERSION file (on disk or in a commit's tree) can hold, stripped.
\* Empty is the content of a file with nothing but white space in it.
Absent == "absent"
Unreadable == "unreadable"
Empty == ""

\* The directory the process was started in.
OrigDir == "startdir"

VARIABLES
    components,  \* the component records of the targets being processed
    disk,        \* module_name -> state of the component's resolved path
    remote,      \* module_name -> the repository behind its clone URL
    now,         \* time.time()
    cwd,         \* os.getcwd()
    last,        \* what the most recent call returned
    phase,       \* what the application is doing
    queue,       \* the rows the running loop has still to process
    report,      \* one row per component the running or last check reached
    misaligned_components,          \* self.misaligned_components
    components_with_local_changes,  \* self.components_with_local_changes
    tally,       \* updated_count, cloned_count, failed_count, reverted_count
    processed,   \* what each iteration of the last reconciliation loop did
    fresh,       \* the names cloned since the check before the running one
    selected,    \* the rows selected for the last reconciliation loop
    summary,     \* what the end of the last check batch printed
    manifest,    \* the CMake file: its set(MODULES_...) declarations
    modules_sections,  \* what parse_cmake_file returned
    stage,       \* how far the start of a run has come
    requested,   \* --target, or the targets ticked in the window
    targets_to_check,  \* the groups the loop will go over
    output,      \* the messages of the target filter
    checked,     \* the records the loop went over
    path,  \* a component's 'path' field
    cmake_file_dir,  \* the directory of the CMake file
    resolved,  \* what successive calls of resolve_path returned
    tree_view,           \* the rows of self.tree
    local_changes_view,  \* the rows of self.local_changes_tree
    run_button,  \* the state of self.run_button
    running,     \* the threads of run_check_thread that have not ended
    retagged,    \* what Retag did to the components not checked since
    pc,          \* where each thread is inside the iteration of its loop
    original_dirs,  \* the original_dir of the function each thread is in
    batch,       \* what the loop of the main thread has still to process
    ran          \* the last command that relied on the working directory

world == <<disk, remote, now>>
app == <<phase, queue, report, misaligned_components,
         components_with_local_changes, tally, processed, fresh, selected,
         summary>>
intake == <<manifest, modules_sections, stage, requested, targets_to_check,
            output, checked>>
paths == <<path, cmake_file_dir, resolved>>
desk == <<tree_view, local_changes_view, run_button, running, retagged>>
race == <<pc, original_dirs, batch, ran>>
vars == <<race, desk, paths, intake, components, disk, remote, now, cwd, last, phase, queue, report,
          misaligned_components, components_with_local_changes, tally,
          processed, fresh, selected, summary>>

\* ------------------------------------------------------- the file system
\* A tag of a repository: kind "none" (no such tag), "lw" (lightweight) or
\* "ann" (annotated, with its tagger date); at is the commit it points to.
NoTagRec == [kind |-> "none", at |-> 0, date |-> 0]

\* A resolved path that is not there.  parent is the state of its parent
\* directory ("present", "missing" or "blocked": it cannot be created);
\* writable says whether the VERSION file of the directory can be written,
\* gitWritable whether git can write the repository (index, objects, refs).
MissingTree ==
    [exists |-> FALSE, isdir |-> FALSE, git |-> FALSE, head |-> 0,
     tags |-> [t \in Tags |-> NoTagRec], committed |-> <<Absent>>,
     dirty |-> FALSE, untracked |-> FALSE, ignored |-> FALSE,
     version |-> Absent, mtime |-> 0, manifest |-> Absent,
     parent |-> "present", writable |-> TRUE, gitWritable |-> TRUE]

\* The commit a tag points to (`git rev-list -n 1 <tag>`).
GitTagCommit(tree, tag) == tree.tags[tag].at

\* The VERSION file in the tree of a commit (`git show <rev>:VERSION`).
GitCommittedVersion(tree, commit) == tree.committed[commit + 1]

\* `git show -s --format=%at <commit>`: the commit's author date.
GitCommitDate(tree, commit) == 1

\* The VERSION file on disk shows in git's status: it differs from the one
\* in HEAD, and is not an untracked file that .gitignore hides.
VersionDelta(tree) ==
    LET inHead == GitCommittedVersion(tree, tree.head)
    IN  tree.version # inHead /\ ~(inHead = Absent /\ tree.ignored)

\* `git status --porcelain` prints something: a tracked or staged change, an
\* untracked file, or the VERSION file.
GitStatusNonEmpty(tree) ==
    tree.dirty \/ tree.untracked \/ VersionDelta(tree)

\* The tags that name HEAD exactly.
TagsAtHead(tree) ==
    {t \in Tags : tree.tags[t].kind # "none" /\ tree.tags[t].at = tree.head}

\* git describe's choice between two tags on one commit: an annotated tag
\* beats a lightweight one, the later tagger date beats the earlier, and
\* otherwise the tag met first in ref order stays.
DescribePrefers(tree, new, old) ==
    LET n == tree.tags[new]
        o == tree.tags[old]
    IN  \/ n.kind = "ann" /\ o.kind = "lw"
        \/ n.kind = "ann" /\ o.kind = "ann" /\ o.date < n.date

\* `git describe --tags --exact-match`: the tag of HEAD, or None (exit
\* status 128) when no tag names HEAD.
RECURSIVE DescribeFrom(_, _, _)
DescribeFrom(tree, i, best) ==
    IF i > Len(TagOrder) THEN best
    ELSE LET t == TagOrder[i]
         IN  IF t \notin TagsAtHead(tree) THEN DescribeFrom(tree, i + 1, best)
             ELSE IF best = None \/ DescribePrefers(tree, t, best)
                  THEN DescribeFrom(tree, i + 1, t)
                  ELSE DescribeFrom(tree, i + 1, best)

GitDescribeExact(tree) == DescribeFrom(tree, 1, None)

\* --------------------------------------------------------- check_tag_reuse
\* What the machine does to one call: whether the git executable can be
\* started (subprocess.run raises when it cannot), and whether a git call of
\* check_tag_reuse exceeds its timeout of one second.
Envs == [gitStarts : BOOLEAN, timeout : BOOLEAN]
QuietEnv == [gitStarts |-> TRUE, timeout |-> FALSE]

IntegrityOk == [ok |-> TRUE, error |-> None]
IntegrityFailed(msg) == [ok |-> FALSE, error |-> msg]

\* The comparison written the wrong way round.
TagFollowsCommit(tag_date, commit_date) ==
    tag_date > commit_date

\* The timestamp test of an annotated tag: tag_date < commit_date.
TagPredatesCommit(tag_date, commit_date) ==
    tag_date < commit_date

\* An integrity check that takes a git call that timed out for one that
\* found nothing wrong.
check_tag_reuse_lenient(tree, tag_name, env) ==
    LET rec == tree.tags[tag_name]
        in_tree == GitCommittedVersion(tree, rec.at)
    IN  IF ~env.gitStarts THEN IntegrityFailed("Error checking tag")
        ELSE IF env.timeout THEN IntegrityOk
        ELSE IF rec.kind = "none" THEN IntegrityFailed("Failed to inspect tag")
        ELSE IF /\ rec.kind = "ann"
                /\ TagPredatesCommit(rec.date, GitCommitDate(tree, rec.at))
             THEN IntegrityFailed("Tag appears to have been reused (created before its commit)")
        ELSE IF in_tree # Absent /\ in_tree # tag_name
             THEN IntegrityFailed("VERSION file content doesn't match tag name")
        ELSE IntegrityOk

\* check_tag_reuse(repo_path, tag_name) -> (is_integrity_ok, error_message)
check_tag_reuse(tree, tag_name, env) ==
    LET rec == tree.tags[tag_name]
        in_tree == GitCommittedVersion(tree, rec.at)
    IN  IF ~env.gitStarts THEN IntegrityFailed("Error checking tag")
        ELSE IF env.timeout THEN IntegrityFailed("Git command timed out")
        ELSE IF rec.kind = "none" THEN IntegrityFailed("Failed to inspect tag")
        ELSE IF /\ rec.kind = "ann"
                /\ TagPredatesCommit(rec.date, GitCommitDate(tree, rec.at))
             THEN IntegrityFailed("Tag appears to have been reused (created before its commit)")
        ELSE IF in_tree # Absent /\ in_tree # tag_name
             THEN IntegrityFailed("VERSION file content doesn't match tag name")
        ELSE IntegrityOk

\* ----------------------------------------------------- check_component_tag
\* The tuple check_component_tag returns, with the outcome the return site
\* stands for, the commit count its message embeds, whether the call raised
\* instead of returning, the working directory it leaves, and the external
\* commands it ran.
Result(aligned, actual, expected, msg, exists, outcome, count, raised, dir, cmds) ==
    [is_aligned |-> aligned, actual_tag |-> actual, expected_tag |-> expected,
     error_message |-> msg, path_exists |-> exists, outcome |-> outcome,
     commit_count |-> count, raised |-> raised, cwd |-> dir, cmds |-> cmds]

\* os.chdir(target): the new working directory.
Chdir(dir, target) == target

\* The way back not taken: the process stays where it is.
ChdirStay(original_dir, dir) == dir

\* os.chdir(original_dir), the way back every function takes before it
\* returns or in its exception handler.
ChdirBack(original_dir, dir) == original_dir

\* Lines 223-254, 278 and 283: enter the directory, ask git for the tag of
\* HEAD and, when there is one, for the tag's commit, HEAD's commit and the
\* status; leave the directory again.  found says whether Method 1 produced
\* a tag.
GitProbe(tree, env, dir, resolved_path) ==
    LET original_dir == dir
        inside == Chdir(dir, resolved_path)
        none == [found |-> FALSE, actual_tag |-> None, tag_commit |-> 0,
                 head_commit |-> 0, uncommitted_changes |-> FALSE]
    IN  IF ~tree.isdir
        THEN \* os.chdir raises; the handler (line 283) changes back
             none @@ [cwd |-> ChdirBack(original_dir, dir), cmds |-> <<>>]
        ELSE IF ~env.gitStarts
        THEN \* subprocess.run raises; the handler (line 283) changes back
             none @@ [cwd |-> ChdirBack(original_dir, inside),
                      cmds |-> <<"rev-parse">>]
        ELSE IF ~tree.git
        THEN \* line 278
             none @@ [cwd |-> ChdirBack(original_dir, inside),
                      cmds |-> <<"rev-parse">>]
        ELSE IF GitDescribeExact(tree) = None
        THEN \* line 278
             none @@ [cwd |-> ChdirBack(original_dir, inside),
                      cmds |-> <<"rev-parse", "describe">>]
        ELSE LET actual_tag == GitDescribeExact(tree)
             IN  \* line 254
                 [found |-> TRUE, actual_tag |-> actual_tag,
                  tag_commit |-> GitTagCommit(tree, actual_tag),
                  head_commit |-> tree.head,
                  uncommitted_changes |-> GitStatusNonEmpty(tree),
                  cwd |-> ChdirBack(original_dir, inside),
                  cmds |-> <<"rev-parse", "describe", "rev-list",
                             "rev-parse HEAD", "status">>]

\* Lines 256-275: the verdict on a working copy whose HEAD carries a tag.
TaggedVerdict(expected_tag, tree, env, probe) ==
    LET actual_tag == probe.actual_tag
        integrity == check_tag_reuse(tree, actual_tag, env)
        R(aligned, msg, outcome, count, cmds) ==
            Result(aligned, actual_tag, expected_tag, msg, TRUE, outcome, count,
                   FALSE, probe.cwd, probe.cmds \o cmds)
    IN  IF actual_tag # expected_tag
        THEN R(FALSE, "Tag mismatch", "TagMismatch", 0, <<>>)
        ELSE IF ~integrity.ok
        THEN R(FALSE, integrity.error, "TagIntegritySuspect", 0, <<"cat-file">>)
        ELSE IF probe.tag_commit # probe.head_commit
        THEN R(FALSE, "Tag is correct but there are commits after the tag",
               "CommitsAheadOfTag", probe.head_commit - probe.tag_commit,
               <<"cat-file", "rev-list --count">>)
        ELSE IF probe.uncommitted_changes
        THEN R(FALSE, "Tag is correct but there are uncommitted changes",
               "UncommittedChanges", 0, <<"cat-file">>)
        ELSE R(TRUE, None, "Aligned", 0, <<"cat-file">>)

\* Method 2 with a file that is still recent when it is exactly one hour
\* old.
VersionVerdictInclusive(expected_tag, tree, time, probe) ==
    LET actual_tag == tree.version
        R(aligned, actual, msg, outcome, raised) ==
            Result(aligned, actual, expected_tag, msg, TRUE, outcome, 0,
                   raised, probe.cwd, probe.cmds)
    IN  IF actual_tag = Unreadable
        THEN R(FALSE, None, "open() raised", "Raised", TRUE)
        ELSE IF actual_tag # expected_tag
        THEN R(FALSE, actual_tag, "Tag mismatch", "TagMismatch", FALSE)
        ELSE IF time - tree.mtime <= RecentWindow
        THEN R(FALSE, actual_tag,
               "VERSION file was recently modified, possible tag reuse",
               "TagIntegritySuspect", FALSE)
        ELSE R(TRUE, actual_tag, None, "Aligned", FALSE)

\* Lines 287-306: Method 2, the VERSION file.  Reading it is not guarded.
VersionVerdict(expected_tag, tree, time, probe) ==
    LET actual_tag == tree.version
        R(aligned, actual, msg, outcome, raised) ==
            Result(aligned, actual, expected_tag, msg, TRUE, outcome, 0,
                   raised, probe.cwd, probe.cmds)
    IN  IF actual_tag = Unreadable
        THEN R(FALSE, None, "open() raised", "Raised", TRUE)
        ELSE IF actual_tag # expected_tag
        THEN R(FALSE, actual_tag, "Tag mismatch", "TagMismatch", FALSE)
        ELSE IF time - tree.mtime < RecentWindow
        THEN R(FALSE, actual_tag,
               "VERSION file was recently modified, possible tag reuse",
               "TagIntegritySuspect", FALSE)
        ELSE R(TRUE, actual_tag, None, "Aligned", FALSE)

\* Lines 308-328: Method 3, manifest.json, and the final fallback.
\* tree.manifest is the file's 'version' field, "noversion" when the file
\* has none or is not valid JSON, Absent when there is no file.
ManifestVerdict(expected_tag, tree, probe) ==
    LET actual_tag == tree.manifest
        R(aligned, actual, msg, outcome) ==
            Result(aligned, actual, expected_tag, msg, TRUE, outcome, 0,
                   FALSE, probe.cwd, probe.cmds)
    IN  IF actual_tag \in {Absent, "noversion"}
        THEN R(FALSE, None, "Could not determine the actual tag", "Undeterminable")
        ELSE IF actual_tag = expected_tag
        THEN R(TRUE, actual_tag, None, "Aligned")
        ELSE R(FALSE, actual_tag, "Tag mismatch", "TagMismatch")

\* The chain with Methods 2 and 3 in the wrong order: manifest.json is
\* asked before the VERSION file.
ProbeVerdictManifestFirst(component, tree, env, time, dir) ==
    LET probe == GitProbe(tree, env, dir, component.module_name)
    IN  IF probe.found
        THEN TaggedVerdict(component.tag, tree, env, probe)
        ELSE IF tree.manifest \in Tags
        THEN ManifestVerdict(component.tag, tree, probe)
        ELSE IF tree.version # Absent
        THEN VersionVerdict(component.tag, tree, time, probe)
        ELSE ManifestVerdict(component.tag, tree, probe)

\* A detection chain that answers Aligned with a diagnostic.
ProbeVerdictTalkative(component, tree, env, time, dir) ==
    LET probe == GitProbe(tree, env, dir, component.module_name)
        verdict == IF probe.found
                   THEN TaggedVerdict(component.tag, tree, env, probe)
                   ELSE IF tree.version # Absent
                   THEN VersionVerdict(component.tag, tree, time, probe)
                   ELSE ManifestVerdict(component.tag, tree, probe)
    IN  IF verdict.is_aligned
        THEN [verdict EXCEPT !.error_message = "Tag is correct"]
        ELSE verdict

\* Lines 219-328: the detection chain on a path that exists.  Method 1 is
\* git's tag of HEAD, Method 2 the VERSION file, Method 3 manifest.json.
ProbeVerdict(component, tree, env, time, dir) ==
    LET probe == GitProbe(tree, env, dir, component.module_name)
    IN  IF probe.found
        THEN TaggedVerdict(component.tag, tree, env, probe)
        ELSE IF tree.version # Absent
        THEN VersionVerdict(component.tag, tree, time, probe)
        ELSE ManifestVerdict(component.tag, tree, probe)

\* The check without its test of os.path.exists.
check_component_tag_unguarded(component, tree, env, time, dir) ==
    ProbeVerdict(component, tree, env, time, dir)

\* check_component_tag(component, cmake_file_dir), run at time `time` from
\* directory `dir` against the component's path in state `tree`.
check_component_tag(component, tree, env, time, dir) ==
    IF ~tree.exists
    THEN Result(FALSE, None, component.tag, "Path does not exist", FALSE,
                "PathMissing", 0, FALSE, dir, <<>>)
    ELSE ProbeVerdict(component, tree, env, time, dir)

\* ---------------------------------------------------------- clone_component
\* What `git clone` leaves at the resolved path: the repository of the
\* origin with its default branch checked out, nothing modified, every file
\* written now.
GitClone(origin_tree, time) ==
    [origin_tree EXCEPT
        !.exists = TRUE, !.isdir = TRUE, !.git = TRUE,
        !.dirty = FALSE, !.untracked = FALSE, !.ignored = FALSE,
        !.version = GitCommittedVersion(origin_tree, origin_tree.head),
        !.mtime = time, !.parent = "present",
        !.writable = TRUE, !.gitWritable = TRUE]

\* A checkout that leaves HEAD where the clone put it.
GitCheckoutNothing(tree, tag, time) == tree

\* `git checkout <tag>` in a clean working copy: HEAD moves to the tag's
\* commit and the files of that commit are written.  The commits beyond the
\* new HEAD and the tags on them stay in the repository but no command of
\* the program can see them from HEAD; they are left out of the record.
GitCheckoutTag(tree, tag, time) ==
    LET at == tree.tags[tag].at
    IN  [tree EXCEPT
            !.head = at,
            !.committed = SubSeq(tree.committed, 1, at + 1),
            !.tags = [t \in Tags |->
                        IF tree.tags[t].at > at THEN NoTagRec ELSE tree.tags[t]],
            !.version = GitCommittedVersion(tree, at),
            !.mtime = time]

\* A return value that reports success whatever happened.
CloneResultOptimistic(success, message, tree, dir, cmds) ==
    [success |-> TRUE, message |-> message, tree |-> tree, cwd |-> dir,
     cmds |-> cmds]

\* The tuple clone_component returns, with the state it leaves at the path,
\* the working directory it leaves and the commands it ran.
CloneResult(success, message, tree, dir, cmds) ==
    [success |-> success, message |-> message, tree |-> tree, cwd |-> dir,
     cmds |-> cmds]

\* clone_component(component, cmake_file_dir, base_url): origin is what
\* base_url + repo_name + ".git" leads to.
clone_component(component, tree, origin, env, time, dir) ==
    LET made == [tree EXCEPT !.parent = "present"]
        original_dir == dir
        inside == Chdir(dir, component.module_name)
        cloned == GitClone(origin.tree, time)
        \* os.makedirs is called when the parent directory is not there
        first == IF tree.parent = "present" THEN <<>> ELSE <<"makedirs">>
    IN  IF tree.parent = "blocked"
        THEN \* os.makedirs raises (line 355)
             CloneResult(FALSE, "Failed to create directory", tree, dir, first)
        ELSE IF ~env.gitStarts
        THEN \* subprocess.run raises; original_dir is not yet a local
             CloneResult(FALSE, "Error cloning component", made, dir,
                         first \o <<"clone">>)
        ELSE IF ~origin.reachable \/ tree.exists
        THEN \* git clone exits non-zero (line 373)
             CloneResult(FALSE, "Failed to clone repository", made, dir,
                         first \o <<"clone">>)
        ELSE IF cloned.tags[component.tag].kind = "none"
        THEN \* git checkout exits non-zero (line 390); the clone stays
             CloneResult(FALSE, "Failed to checkout tag", cloned,
                         ChdirBack(original_dir, inside),
                         first \o <<"clone", "checkout">>)
        ELSE CloneResult(TRUE, "Successfully cloned",
                         GitCheckoutTag(cloned, component.tag, time),
                         ChdirBack(original_dir, inside),
                         first \o <<"clone", "checkout">>)

\* ------------------------------------------------ update_selected_components
\* A commit of the VERSION file alone: the other changes stay.
GitCommitVersionOnly(tree) ==
    LET inHead == GitCommittedVersion(tree, tree.head)
        inNew == IF inHead = Absent /\ tree.ignored THEN Absent
                 ELSE tree.version
    IN  IF ~GitStatusNonEmpty(tree) THEN tree
        ELSE [tree EXCEPT
                !.head = Len(tree.committed),
                !.committed = Append(tree.committed, inNew)]

\* `git add .` and `git commit -m ...`: when anything shows in the status a
\* commit is made of all of it; an untracked VERSION that .gitignore hides
\* is not added.
GitCommitAll(tree) ==
    LET inHead == GitCommittedVersion(tree, tree.head)
        inNew == IF inHead = Absent /\ tree.ignored THEN Absent
                 ELSE tree.version
    IN  IF ~GitStatusNonEmpty(tree) THEN tree
        ELSE [tree EXCEPT
                !.head = Len(tree.committed),
                !.committed = Append(tree.committed, inNew),
                !.dirty = FALSE, !.untracked = FALSE]

\* `git tag -d <tag>`
GitTagDelete(tree, tag) ==
    [tree EXCEPT !.tags[tag] = NoTagRec]

\* `git tag -f <tag>`: a lightweight tag on HEAD.
GitTagForce(tree, tag) ==
    [tree EXCEPT !.tags[tag] = [kind |-> "lw", at |-> tree.head, date |-> 0]]

\* `git tag -l <tag>` prints the tag.
GitTagListed(tree, tag) == tree.tags[tag].kind # "none"

\* What one iteration of a reconciliation loop did: the counter it
\* incremented, the diagnostic it printed (None when it printed none), the
\* state it leaves at the path, the working directory it leaves and the
\* steps it took, in order, the failed one included.
Iteration(counted, problem, tree, dir, cmds) ==
    [counted |-> counted, problem |-> problem, tree |-> tree, cwd |-> dir,
     cmds |-> cmds]

\* Lines 688-727: the component was missing when it was checked.
AcquireIteration(component, tree, origin, env, time, dir) ==
    LET cloned == clone_component(
                      [module_name |-> component.module_name,
                       tag |-> component.expected_tag],
                      tree, origin, env, time, dir)
    IN  IF cloned.success
        THEN Iteration("cloned", None, cloned.tree, cloned.cwd, cloned.cmds)
        ELSE Iteration("failed", cloned.message, cloned.tree, cloned.cwd,
                       cloned.cmds)

\* A write that leaves the modification time of the VERSION file as it was.
WriteVersionBackdated(tree, expected_tag, time) ==
    [tree EXCEPT !.version = expected_tag]

\* A write that leaves the VERSION file as it was.
WriteNothing(tree, expected_tag, time) == tree

\* with open('VERSION', 'w') as f: f.write(expected_tag)
WriteVersion(tree, expected_tag, time) ==
    [tree EXCEPT !.version = expected_tag, !.mtime = time]

\* The git commands of Retag, in the order of lines 740-766.
RetagGitSteps ==
    <<"rev-parse", "status", "add", "commit", "tag -d", "tag -f", "tag -l">>

\* Lines 729-787: Retag.  The VERSION file is written, then git is asked to
\* commit everything and to move the tag; what git refuses is printed as a
\* warning and the component is counted as updated.
RetagIteration(component, tree, env, time, dir) ==
    LET original_dir == dir
        inside == Chdir(dir, component.module_name)
        expected_tag == component.expected_tag
        marked == WriteVersion(tree, expected_tag, time)
        tagged == GitTagForce(GitTagDelete(GitCommitAll(marked), expected_tag),
                              expected_tag)
        after == IF tree.gitWritable THEN tagged ELSE marked
    IN  IF ~tree.exists \/ ~tree.isdir
        THEN \* os.chdir raises (line 731)
             Iteration("failed", "Error updating: chdir", tree,
                       ChdirBack(original_dir, dir), <<"chdir">>)
        ELSE IF ~tree.writable \/ tree.version = Unreadable
        THEN \* open('VERSION', 'w') raises (line 734)
             Iteration("failed", "Error updating: VERSION", tree,
                       ChdirBack(original_dir, inside),
                       <<"chdir", "write VERSION">>)
        ELSE IF ~env.gitStarts
        THEN \* subprocess.run raises inside the inner try (line 770)
             Iteration("updated", "Warning: Git operation failed", marked,
                       ChdirBack(original_dir, inside),
                       <<"chdir", "write VERSION", "rev-parse">>)
        ELSE IF ~tree.git
        THEN Iteration("updated", None, marked,
                       ChdirBack(original_dir, inside),
                       <<"chdir", "write VERSION", "rev-parse">>)
        ELSE IF ~GitTagListed(after, expected_tag)
        THEN \* line 769 raises inside the inner try
             Iteration("updated", "Warning: Git operation failed", after,
                       ChdirBack(original_dir, inside),
                       <<"chdir", "write VERSION">> \o RetagGitSteps)
        ELSE Iteration("updated", None, after,
                       ChdirBack(original_dir, inside),
                       <<"chdir", "write VERSION">> \o RetagGitSteps)

\* One iteration of the loop of update_selected_components.  path_exists is
\* the value the check stored in the row, not the state of the disk.
UpdateIteration(component, tree, origin, env, time, dir) ==
    IF ~component.path_exists
    THEN AcquireIteration(component, tree, origin, env, time, dir)
    ELSE RetagIteration(component, tree, env, time, dir)

\* --------------------------------------------------- revert_selected_changes
\* `git reset HEAD` and `git checkout --force .`: every tracked file is as
\* in HEAD again.
GitDiscardTracked(tree, time) ==
    LET inHead == GitCommittedVersion(tree, tree.head)
    IN  IF inHead = Absent \/ tree.version = inHead
        THEN [tree EXCEPT !.dirty = FALSE]
        ELSE [tree EXCEPT !.dirty = FALSE, !.version = inHead, !.mtime = time]

\* `git ls-files --others --exclude-standard` prints something.
GitUntrackedListed(tree) ==
    \/ tree.untracked
    \/ /\ GitCommittedVersion(tree, tree.head) = Absent
       /\ tree.version # Absent /\ ~tree.ignored

\* `git clean -fd`: untracked files go, ignored ones stay.
GitClean(tree) ==
    IF GitCommittedVersion(tree, tree.head) = Absent /\ ~tree.ignored
    THEN [tree EXCEPT !.untracked = FALSE, !.version = Absent, !.mtime = 0]
    ELSE [tree EXCEPT !.untracked = FALSE]

\* Lines 576-646, with the answer to the question about untracked files
\* (line 617) as `confirm`.
RevertSteps(component, tree, env, confirm, time, dir) ==
    LET original_dir == dir
        inside == Chdir(dir, component.change_location)
        discarded == GitDiscardTracked(tree, time)
    IN  IF ~tree.exists \/ ~tree.isdir
        THEN \* os.chdir raises (line 591)
             Iteration("failed", "Error reverting: chdir", tree,
                       ChdirBack(original_dir, dir), <<"chdir">>)
        ELSE IF ~env.gitStarts
        THEN \* subprocess.run raises (line 594)
             Iteration("failed", "Error reverting: git", tree,
                       ChdirBack(original_dir, inside),
                       <<"chdir", "rev-parse">>)
        ELSE IF ~tree.git
        THEN \* line 629
             Iteration("failed", "Error reverting: Not a git repository",
                       tree, ChdirBack(original_dir, inside),
                       <<"chdir", "rev-parse">>)
        ELSE IF ~tree.gitWritable
        THEN \* line 609
             Iteration("failed", "Error reverting: Git checkout failed",
                       tree, ChdirBack(original_dir, inside),
                       <<"chdir", "rev-parse", "reset", "checkout">>)
        ELSE IF GitUntrackedListed(discarded) /\ confirm
        THEN Iteration("reverted", None, GitClean(discarded),
                       ChdirBack(original_dir, inside),
                       <<"chdir", "rev-parse", "reset", "checkout",
                         "ls-files", "askyesno", "clean">>)
        ELSE IF GitUntrackedListed(discarded)
        THEN Iteration("reverted", "Warning: Untracked files remain",
                       discarded, ChdirBack(original_dir, inside),
                       <<"chdir", "rev-parse", "reset", "checkout",
                         "ls-files", "askyesno">>)
        ELSE Iteration("reverted", None, discarded,
                       ChdirBack(original_dir, inside),
                       <<"chdir", "rev-parse", "reset", "checkout",
                         "ls-files">>)

\* An iteration that removes untracked files whatever the user answers.
RevertIterationAlwaysClean(component, tree, env, confirm, time, dir) ==
    RevertSteps(component, tree, env, TRUE, time, dir)

\* One iteration of the loop of revert_selected_changes; confirm is what
\* the user answers when asked whether untracked files are to be removed.
RevertIteration(component, tree, env, confirm, time, dir) ==
    RevertSteps(component, tree, env, confirm, time, dir)

\* ------------------------------------------------------------ the manifest
Component(name, tag) == [module_name |-> name, tag |-> tag]
Names(comps) == {comps[i].module_name : i \in 1..Len(comps)}

\* ------------------------------------------------ states of a checked path
\* The VERSION file on disk with its modification time, and manifest.json.
Mtimes == {0, 1, 2}
Markers ==
    {[version |-> v, mtime |-> m, manifest |-> j] :
        v \in {Absent, Unreadable, Empty} \cup Tags, m \in Mtimes,
        j \in {Absent, "noversion"} \cup Tags}
PlainMarkers == {k \in Markers : k.version \notin Tags => k.mtime = 0}

\* The tags a repository with HEAD at commit h can carry: each tag is
\* missing, or sits on the first commit or on HEAD.
TagRecs(h, kinds) ==
    {NoTagRec} \cup
    {[kind |-> k, at |-> a, date |-> d] :
        k \in kinds, a \in {0, h}, d \in Dates}
TagTables(h, kinds) ==
    {tt \in [Tags -> TagRecs(h, kinds)] :
        \A t \in Tags : tt[t].kind = "lw" => tt[t].date = 0}

\* A directory that is (git = TRUE) or is not a git working copy.  The
\* VERSION file of the history never changed: committed is constant.
DirTree(git, h, tt, c, d, u, i, k) ==
    [exists |-> TRUE, isdir |-> TRUE, git |-> git, head |-> h, tags |-> tt,
     committed |-> [n \in 1..(h + 1) |-> c], dirty |-> d, untracked |-> u,
     ignored |-> i, version |-> k.version, mtime |-> k.mtime,
     manifest |-> k.manifest, parent |-> "present", writable |-> TRUE,
     gitWritable |-> TRUE]

\* A path that exists and is a file: nothing can be entered or found in it.
FileTree == [MissingTree EXCEPT !.exists = TRUE]

\* The disk of a manifest with the single component Alpha.
OnlyAlpha(tree) == [n \in {"Alpha"} |-> tree]

\* Alpha is a directory that is not a working copy, with any markers.
PlainDisk ==
    \E k \in PlainMarkers :
        disk = OnlyAlpha(DirTree(FALSE, 0, [t \in Tags |-> NoTagRec], Absent,
                                 FALSE, FALSE, FALSE, k))

\* Alpha is a working copy in any tag configuration whose VERSION file on
\* disk is the committed one or missing.
TaggedDisk ==
    \E h \in Commits, c \in {Absent} \cup Tags, d \in BOOLEAN, u \in BOOLEAN :
        \E tt \in TagTables(h, {"lw", "ann"}), v \in {Absent, c} :
            disk = OnlyAlpha(DirTree(TRUE, h, tt, c, d, u, FALSE,
                       [version |-> v, mtime |-> 0, manifest |-> Absent]))

\* Alpha is a working copy with lightweight tags only, with any VERSION
\* file and manifest.json beside it; .gitignore can hide an untracked
\* VERSION.
MarkedDisk ==
    \E h \in Commits, c \in {Absent} \cup Tags, d \in BOOLEAN, u \in BOOLEAN :
        \E tt \in TagTables(h, {"lw"}), k \in PlainMarkers :
            \E i \in IF c = Absent /\ k.version # Absent THEN BOOLEAN ELSE {FALSE} :
                disk = OnlyAlpha(DirTree(TRUE, h, tt, c, d, u, i, k))

\* The states of Alpha's path that check_component_tag is checked on.
CheckDisk ==
    \/ disk \in {OnlyAlpha(MissingTree), OnlyAlpha(FileTree)}
    \/ PlainDisk
    \/ TaggedDisk
    \/ MarkedDisk

\* --------------------------------------------------------------- the calls
NoResult == Result(FALSE, None, None, None, FALSE, "None", 0, FALSE, OrigDir, <<>>)
NoCall == [op |-> "none", name |-> None, env |-> QuietEnv, result |-> NoResult,
           acquired |-> FALSE, retagged |-> "none", retagged_at |-> 0]

\* No repository behind the clone URL.
NoOrigin == [reachable |-> FALSE, tree |-> MissingTree]

NoTally == [updated_count |-> 0, cloned_count |-> 0, failed_count |-> 0,
            reverted_count |-> 0]

\* Nothing has been printed at the end of a check batch.
NoSummary ==
    [printed |-> FALSE, all_aligned |-> FALSE, misaligned |-> FALSE,
     listed |-> <<>>, percentage |-> <<>>, total |-> 0]

\* The window as __init__ leaves it.
DeskIdle ==
    /\ tree_view = <<>>
    /\ local_changes_view = <<>>
    /\ run_button = "normal"
    /\ running = 0
    /\ retagged = {}

\* No path is being resolved.
PathsIdle ==
    /\ path = <<>>
    /\ cmake_file_dir = <<>>
    /\ resolved = <<>>

\* No manifest is being read.
IntakeIdle ==
    /\ manifest = <<>>
    /\ modules_sections = <<>>
    /\ stage = "none"
    /\ requested = {}
    /\ targets_to_check = {}
    /\ output = {}
    /\ checked = {}

\* A command run without a path: the thread that ran it, the component it
\* was run for, and the working directory of the process at that moment.
Command(by, for, cmd, dir) == [by |-> by, for |-> for, cmd |-> cmd, in |-> dir]

\* The application before its first batch.
AppIdle ==
    /\ phase = "idle"
    /\ queue = <<>>
    /\ report = <<>>
    /\ misaligned_components = <<>>
    /\ components_with_local_changes = <<>>
    /\ tally = NoTally
    /\ processed = <<>>
    /\ fresh = {}
    /\ selected = {}
    /\ summary = NoSummary
    /\ DeskIdle
    /\ pc = [check |-> "idle", main |-> "idle"]
    /\ original_dirs = [check |-> OrigDir, main |-> OrigDir]
    /\ batch = <<>>
    /\ ran = Command(None, None, None, OrigDir)

\* One call of check_component_tag, as main() and run_check_thread make it.
CheckCall(i, env) ==
    LET component == components[i]
        result == check_component_tag(component, disk[component.module_name],
                                      env, now, cwd)
    IN  /\ last' = [op |-> "check", name |-> component.module_name,
                    env |-> env, result |-> result, acquired |-> FALSE,
                    retagged |-> "none", retagged_at |-> 0]
        /\ cwd' = result.cwd
        /\ UNCHANGED <<desk, race, paths, intake, components, world, app>>

Check == \E i \in 1..Len(components), env \in Envs : CheckCall(i, env)

\* A single component declared at V1, its path in any state, checked just
\* after, exactly at and just before the VERSION file's hour has passed.
Init ==
    /\ components = <<Component("Alpha", "V1")>>
    /\ CheckDisk
    /\ remote = OnlyAlpha(NoOrigin)
    /\ now = RecentWindow + 1
    /\ cwd = OrigDir
    /\ last = NoCall
    /\ AppIdle
    /\ IntakeIdle
    /\ PathsIdle

Next == Check

Spec == Init /\ [][Next]_vars

\* ------------------------------------------------------- the application
\* The rows the check keeps of a component that is not aligned.
ComponentInfo(result, name) ==
    [module_name |-> name, expected_tag |-> result.expected_tag,
     actual_tag |-> result.actual_tag, error_message |-> result.error_message,
     path_exists |-> result.path_exists]

LocalChange(name) == [module_name |-> name, change_location |-> name]

\* `"Tag is correct but there are uncommitted changes" in error_message`
HasLocalChanges(result) ==
    result.error_message = "Tag is correct but there are uncommitted changes"

\* No loop is running: the buttons of the window can be used.
Ready ==
    phase \in {"idle", "returned", "checked", "aborted", "updated", "reverted"}

\* The main thread is not inside the loop of a reconciliation: the window
\* answers to its buttons.
MainThreadFree == phase \notin {"updating", "reverting"}

\* The rows of the two tables, as the check inserts them.
MisalignedRow(info) ==
    <<info.module_name, info.expected_tag, info.actual_tag,
      info.error_message>>
LocalChangeRow(change) == <<change.module_name, change.change_location>>

\* The components the last reconciliation batch retagged, each with how far
\* Retag got, and those of earlier batches that were not checked since.
Retagged ==
    LET latest == {<<processed[k].name, processed[k].reach, processed[k].at>> :
                      k \in {j \in 1..Len(processed) :
                                processed[j].reach # "none"}}
    IN  latest \cup {p \in retagged : \A q \in latest : q[1] # p[1]}

\* What Retag did to a component that has not been checked since: "plain"
\* when it wrote VERSION in a directory that is not a working copy, "git"
\* when it wrote VERSION in a working copy and git made the commit and the
\* tag, "partly" when git did less, "none" otherwise.
RetaggedHow(name) ==
    IF \E p \in retagged : p[1] = name
    THEN (CHOOSE p \in retagged : p[1] = name)[2]
    ELSE "none"

\* The time at which it did.
RetaggedAt(name) ==
    IF \E p \in retagged : p[1] = name
    THEN (CHOOSE p \in retagged : p[1] = name)[3]
    ELSE 0

\* Lines 729-777 seen from the outside: how far Retag gets on a path.
RetagReach(component, tree, env, time) ==
    LET expected_tag == component.expected_tag
        marked == WriteVersion(tree, expected_tag, time)
    IN  IF ~component.path_exists THEN "none"
        ELSE IF ~tree.exists \/ ~tree.isdir \/ ~tree.writable
                \/ tree.version = Unreadable
        THEN "none"
        ELSE IF ~tree.git THEN "plain"
        ELSE IF /\ env.gitStarts /\ tree.gitWritable
                /\ GitStatusNonEmpty(marked)
        THEN "git"
        ELSE "partly"


\* The names the last reconciliation batch cloned.
Acquired ==
    {processed[k].name : k \in {j \in 1..Len(processed) :
                                   processed[j].counted = "cloned"}}

\* A selection in which every row comes twice.
RECURSIVE InOrderRepeated(_, _)
InOrderRepeated(selection, n) ==
    IF n = 0 THEN <<>>
    ELSE IF n \in selection
    THEN Append(Append(InOrderRepeated(selection, n - 1), n), n)
    ELSE InOrderRepeated(selection, n - 1)

\* The indices of a selection, in the order of the rows of the table.
RECURSIVE InOrder(_, _)
InOrder(selection, n) ==
    IF n = 0 THEN <<>>
    ELSE IF n \in selection THEN Append(InOrder(selection, n - 1), n)
    ELSE InOrder(selection, n - 1)

\* A run_check that leaves the button as it is.
RunCheckButtonLeft ==
    /\ MainThreadFree /\ run_button = "normal"
    /\ running' = running + 1
    /\ phase' = "started"
    /\ queue' = <<>>
    /\ report' = <<>>
    /\ tree_view' = <<>>
    /\ local_changes_view' = <<>>
    /\ misaligned_components' = <<>>
    /\ components_with_local_changes' = <<>>
    /\ last' = [NoCall EXCEPT !.op = "run_check"]
    /\ tally' = NoTally
    /\ processed' = <<>>
    /\ fresh' = Acquired
    /\ selected' = {}
    /\ summary' = NoSummary
    /\ retagged' = Retagged
    /\ UNCHANGED <<run_button, race, paths, intake, components, world, cwd>>

\* run_check (lines 331-352): the button is disabled, clear_results empties
\* the output, both tables and both lists, and the thread is started.  The
\* counts and messages of a reconciliation that went before are gone; fresh
\* remembers what it cloned.
RunCheck ==
    /\ MainThreadFree /\ run_button = "normal"
    /\ run_button' = "disabled"
    /\ running' = running + 1
    /\ phase' = "started"
    /\ queue' = <<>>
    /\ report' = <<>>
    /\ tree_view' = <<>>
    /\ local_changes_view' = <<>>
    /\ misaligned_components' = <<>>
    /\ components_with_local_changes' = <<>>
    /\ last' = [NoCall EXCEPT !.op = "run_check"]
    /\ tally' = NoTally
    /\ processed' = <<>>
    /\ fresh' = Acquired
    /\ selected' = {}
    /\ summary' = NoSummary
    /\ retagged' = Retagged
    /\ UNCHANGED <<race, paths, intake, components, world, cwd>>

\* run_check_thread up to its loop (lines 354-405): the targets are found,
\* the table and the list of misaligned components are emptied once more.
ThreadProceeds ==
    /\ phase = "started"
    /\ phase' = "checking"
    /\ queue' = [i \in 1..Len(components) |-> i]
    /\ tree_view' = <<>>
    /\ misaligned_components' = <<>>
    /\ UNCHANGED <<local_changes_view, run_button, running, retagged, race, paths,
                   intake, components, world, cwd, last, report,
                   components_with_local_changes, tally, processed, fresh,
                   selected, summary>>

\* run_check_thread when none of the ticked targets is in the file it
\* parsed (lines 366-370 and 380-385): it prints that, enables the button
\* and returns.
ThreadReturns ==
    /\ phase = "started"
    /\ phase' = "returned"
    /\ run_button' = "normal"
    /\ running' = running - 1
    /\ last' = [NoCall EXCEPT !.op = "no targets"]
    /\ UNCHANGED <<tree_view, local_changes_view, retagged, race, paths, intake,
                   components, world, cwd, queue, report,
                   misaligned_components, components_with_local_changes,
                   tally, processed, fresh, selected, summary>>

\* A clear_results that forgets the two lists.
ClearResultsViewsOnly ==
    /\ Ready
    /\ report' = <<>>
    /\ summary' = NoSummary
    /\ tree_view' = <<>>
    /\ local_changes_view' = <<>>
    /\ last' = [NoCall EXCEPT !.op = "clear"]
    /\ phase' = "idle"
    /\ UNCHANGED <<misaligned_components, components_with_local_changes,
                   run_button, running, retagged, race, paths, intake, components,
                   world, cwd, queue, tally, processed, fresh, selected>>

\* clear_results (lines 306-329), from the Clear button while no loop runs:
\* the output, both tables and both lists are emptied and the window shows
\* nothing of what was done before.
ClearResults ==
    /\ Ready
    /\ report' = <<>>
    /\ summary' = NoSummary
    /\ tree_view' = <<>>
    /\ local_changes_view' = <<>>
    /\ misaligned_components' = <<>>
    /\ components_with_local_changes' = <<>>
    /\ last' = [NoCall EXCEPT !.op = "clear"]
    /\ phase' = "idle"
    /\ UNCHANGED <<run_button, running, retagged, race, paths, intake, components,
                   world, cwd, queue, tally, processed, fresh, selected>>

\* One iteration of the loop of run_check_thread (lines 407-482).  When the
\* call raises, the exception leaves the loop: line 518 reports it, the
\* components still queued are not checked and line 522 enables the button.
CheckNext ==
    /\ phase = "checking" /\ queue # <<>>
    /\ \E env \in Envs :
        LET component == components[Head(queue)]
            name == component.module_name
            result == check_component_tag(component, disk[name], env, now, cwd)
        IN  /\ last' = [op |-> "check", name |-> name, env |-> env,
                        result |-> result, acquired |-> name \in fresh,
                        retagged |-> RetaggedHow(name),
                        retagged_at |-> RetaggedAt(name)]
            /\ retagged' = {p \in retagged : p[1] # name}
            /\ cwd' = result.cwd
            /\ IF result.raised
               THEN /\ phase' = "aborted"
                    /\ run_button' = "normal"
                    /\ running' = running - 1
                    /\ UNCHANGED <<queue, report, misaligned_components,
                                   components_with_local_changes, tree_view,
                                   local_changes_view>>
               ELSE /\ phase' = phase
                    /\ queue' = Tail(queue)
                    /\ report' = Append(report,
                                        [name |-> name,
                                         is_aligned |-> result.is_aligned,
                                         outcome |-> result.outcome,
                                         error_message |-> result.error_message])
                    /\ misaligned_components' =
                          IF result.is_aligned THEN misaligned_components
                          ELSE Append(misaligned_components,
                                      ComponentInfo(result, name))
                    /\ tree_view' =
                          IF result.is_aligned THEN tree_view
                          ELSE Append(tree_view,
                                      MisalignedRow(ComponentInfo(result, name)))
                    /\ components_with_local_changes' =
                          IF HasLocalChanges(result)
                          THEN Append(components_with_local_changes,
                                      LocalChange(name))
                          ELSE components_with_local_changes
                    /\ local_changes_view' =
                          IF HasLocalChanges(result)
                          THEN Append(local_changes_view,
                                      LocalChangeRow(LocalChange(name)))
                          ELSE local_changes_view
                    /\ UNCHANGED <<run_button, running>>
    /\ UNCHANGED <<race, paths, intake, components, world, tally, processed, fresh, selected,
                   summary>>

\* f"{percentage:.2f}" of (misaligned / total) * 100, in hundredths of a
\* percent.
Percentage(misaligned, total) ==
    (misaligned * 10000 + (total \div 2)) \div total

\* Lines 484-515: what run_check_thread prints after its loop.  The first
\* message depends on the table of local changes, the report on the table
\* of misaligned components.
CheckSummary(misaligned, local_changes, total_components) ==
    [printed |-> TRUE,
     all_aligned |-> local_changes = <<>> \/ misaligned = <<>>,
     misaligned |-> misaligned # <<>>,
     listed |-> [k \in 1..Len(misaligned) |->
                   [name |-> misaligned[k].module_name,
                    reason |-> misaligned[k].error_message]],
     percentage |-> IF misaligned = <<>> THEN <<>>
                    ELSE <<Percentage(Len(misaligned), total_components)>>,
     total |-> total_components]

\* The loop is over: the summary is printed (lines 484-517) and line 522
\* enables the button.
FinishCheck ==
    /\ phase = "checking" /\ queue = <<>>
    /\ phase' = "checked"
    /\ summary' = CheckSummary(misaligned_components,
                               components_with_local_changes, Len(report))
    /\ run_button' = "normal"
    /\ running' = running - 1
    /\ UNCHANGED <<tree_view, local_changes_view, retagged, race, paths, intake, components, world, cwd, last, queue, report,
                   misaligned_components, components_with_local_changes,
                   tally, processed, fresh, selected>>

\* update_selected_components up to its loop: some rows of the table of
\* misaligned components are selected, each row index has an entry in the
\* list (lines 668-671) and the question is answered yes.
UpdateSelected ==
    /\ Ready
    /\ \E selection \in SUBSET (1..Len(tree_view)) :
        /\ selection # {}
        /\ \A idx \in selection : idx <= Len(misaligned_components)
        /\ queue' = InOrder(selection, Len(tree_view))
        /\ selected' = selection
    /\ phase' = "updating"
    /\ tally' = NoTally
    /\ processed' = <<>>
    /\ last' = [NoCall EXCEPT !.op = "update"]
    /\ UNCHANGED <<desk, race, paths, intake, components, world, cwd, report, misaligned_components,
                   components_with_local_changes, fresh, summary>>

\* One iteration of the loop of update_selected_components (lines 681-787).
UpdateNext ==
    /\ phase = "updating" /\ queue # <<>>
    /\ \E env \in {e \in Envs : ~e.timeout} :
        LET component == misaligned_components[Head(queue)]
            name == component.module_name
            done == UpdateIteration(component, disk[name], remote[name], env,
                                    now, cwd)
        IN  /\ done.tree.head <= MaxCommits
            /\ disk' = [disk EXCEPT ![name] = done.tree]
            /\ cwd' = done.cwd
            /\ tally' =
                  [tally EXCEPT
                     !.updated_count = @ + (IF done.counted = "updated" THEN 1 ELSE 0),
                     !.cloned_count = @ + (IF done.counted = "cloned" THEN 1 ELSE 0),
                     !.failed_count = @ + (IF done.counted = "failed" THEN 1 ELSE 0)]
            /\ processed' = Append(processed,
                                   [name |-> name, counted |-> done.counted,
                                    problem |-> done.problem,
                                    action |-> IF component.path_exists
                                               THEN "retag" ELSE "acquire",
                                    cmds |-> done.cmds,
                                    answer |-> "not asked",
                                    reach |-> RetagReach(component, disk[name],
                                                         env, now),
                                    at |-> now])
            /\ last' = [NoCall EXCEPT !.op = "update", !.name = name,
                                      !.env = env]
    /\ queue' = Tail(queue)
    /\ UNCHANGED <<desk, race, paths, intake, components, remote, now, phase, report,
                   misaligned_components, components_with_local_changes,
                   fresh, selected, summary>>

\* The loop is over: the counts are shown (lines 789-805).
FinishUpdate ==
    /\ phase = "updating" /\ queue = <<>>
    /\ phase' = "updated"
    /\ UNCHANGED <<desk, race, paths, intake, components, world, cwd, last, queue, report,
                   misaligned_components, components_with_local_changes,
                   tally, processed, fresh, selected, summary>>

\* revert_selected_changes up to its loop: some rows of the table of local
\* changes are selected, each row index has an entry in the list (lines
\* 568-570) and the question is answered yes.
RevertSelected ==
    /\ Ready
    /\ \E selection \in SUBSET (1..Len(local_changes_view)) :
        /\ selection # {}
        /\ \A idx \in selection : idx <= Len(components_with_local_changes)
        /\ queue' = InOrder(selection, Len(local_changes_view))
        /\ selected' = selection
    /\ phase' = "reverting"
    /\ tally' = NoTally
    /\ processed' = <<>>
    /\ last' = [NoCall EXCEPT !.op = "revert"]
    /\ UNCHANGED <<desk, race, paths, intake, components, world, cwd, report, misaligned_components,
                   components_with_local_changes, fresh, summary>>

\* What the user answered to messagebox.askyesno of line 617.
Answer(cmds, confirm) ==
    IF \A k \in 1..Len(cmds) : cmds[k] # "askyesno" THEN "not asked"
    ELSE IF confirm THEN "yes" ELSE "no"

\* One iteration of the loop of revert_selected_changes (lines 576-646).
RevertNext ==
    /\ phase = "reverting" /\ queue # <<>>
    /\ \E env \in {e \in Envs : ~e.timeout}, confirm \in BOOLEAN :
        LET component == components_with_local_changes[Head(queue)]
            name == component.module_name
            done == RevertIteration(component, disk[name], env, confirm, now,
                                    cwd)
        IN  /\ disk' = [disk EXCEPT ![name] = done.tree]
            /\ cwd' = done.cwd
            /\ tally' =
                  [tally EXCEPT
                     !.reverted_count = @ + (IF done.counted = "reverted" THEN 1 ELSE 0),
                     !.failed_count = @ + (IF done.counted = "failed" THEN 1 ELSE 0)]
            /\ processed' = Append(processed,
                                   [name |-> name, counted |-> done.counted,
                                    problem |-> done.problem,
                                    action |-> "revert",
                                    cmds |-> done.cmds,
                                    answer |-> Answer(done.cmds, confirm),
                                    reach |-> "none", at |-> now])
            /\ last' = [NoCall EXCEPT !.op = "revert", !.name = name,
                                      !.env = env]
    /\ queue' = Tail(queue)
    /\ UNCHANGED <<desk, race, paths, intake, components, remote, now, phase, report,
                   misaligned_components, components_with_local_changes,
                   fresh, selected, summary>>

\* The loop is over: the counts are shown (lines 648-656).
FinishRevert ==
    /\ phase = "reverting" /\ queue = <<>>
    /\ phase' = "reverted"
    /\ UNCHANGED <<desk, race, paths, intake, components, world, cwd, last, queue, report,
                   misaligned_components, components_with_local_changes,
                   tally, processed, fresh, selected, summary>>

\* ------------------------------------------- the worlds of the application
\* A component's path with the repository behind its clone URL.
World(tree, origin) == [tree |-> tree, origin |-> origin]

NoTags == [t \in Tags |-> NoTagRec]
Lightweight(commit) == [kind |-> "lw", at |-> commit, date |-> 0]
Old(version) == [version |-> version, mtime |-> 0, manifest |-> Absent]

\* The repositories a clone URL can lead to: any tags, the VERSION file
\* committed or not, nothing else.
OriginTrees ==
    {DirTree(TRUE, h, tt, c, FALSE, FALSE, FALSE, Old(c)) :
        <<h, tt, c>> \in
            UNION {{h} \X TagTables(h, {"lw", "ann"}) \X ({Absent} \cup Tags) :
                      h \in Commits}}

\* A path that is missing, with any repository to clone; the parent
\* directory is there, can be made or cannot be made, and the URL can lead
\* nowhere.
MissingWorlds ==
    {World([MissingTree EXCEPT !.parent = p], [reachable |-> TRUE, tree |-> o]) :
        p \in {"present", "missing"}, o \in OriginTrees}
    \cup {World(MissingTree, NoOrigin),
          World([MissingTree EXCEPT !.parent = "blocked"],
                [reachable |-> TRUE,
                 tree |-> DirTree(TRUE, 0, [NoTags EXCEPT !["V1"] = Lightweight(0)],
                                  "V1", FALSE, FALSE, FALSE, Old("V1"))])}

\* Directories that are not working copies: the VERSION file missing,
\* unreadable or holding a tag, writable or not.
PlainTrees ==
    {[DirTree(FALSE, 0, NoTags, Absent, FALSE, FALSE, FALSE, Old(v))
        EXCEPT !.writable = w] :
        v \in {Absent, Unreadable} \cup Tags, w \in BOOLEAN}

\* Working copies with lightweight tags, a VERSION file as committed, with
\* or without local changes, in a repository git can or cannot write.
WorkingTrees ==
    {[DirTree(TRUE, x[1], x[2], x[3], x[4], x[5], FALSE, Old(x[3]))
        EXCEPT !.gitWritable = x[6]] :
        x \in UNION {{h} \X TagTables(h, {"lw"}) \X {Absent, "V1"}
                         \X BOOLEAN \X BOOLEAN \X BOOLEAN :
                     h \in Commits}}

\* A manifest with the single component Alpha, in any of these worlds.
SoloWorlds ==
    MissingWorlds
    \cup {World(t, NoOrigin) : t \in {FileTree} \cup PlainTrees \cup WorkingTrees}

SoloWorld ==
    /\ components = <<Component("Alpha", "V1")>>
    /\ \E w \in SoloWorlds :
        /\ disk = OnlyAlpha(w.tree)
        /\ remote = OnlyAlpha(w.origin)

\* A manifest with three components, each one in a world in which the
\* check or the reconciliation succeeds or fails in one of its ways.
TrioNames == <<"Alpha", "Beta", "Gamma">>
TaggedV1 ==
    DirTree(TRUE, 0, [NoTags EXCEPT !["V1"] = Lightweight(0)], "V1",
            FALSE, FALSE, FALSE, Old("V1"))
TaggedV2 ==
    DirTree(TRUE, 0, [NoTags EXCEPT !["V2"] = Lightweight(0)], "V2",
            FALSE, FALSE, FALSE, Old("V2"))
TrioWorlds ==
    {World(MissingTree, [reachable |-> TRUE, tree |-> TaggedV1]),
     World(MissingTree, NoOrigin),
     World(DirTree(FALSE, 0, NoTags, Absent, FALSE, FALSE, FALSE,
                   Old(Unreadable)), NoOrigin),
     World(TaggedV2, NoOrigin),
     World([TaggedV2 EXCEPT !.gitWritable = FALSE], NoOrigin)}

TrioWorld ==
    /\ components = [i \in 1..Len(TrioNames) |-> Component(TrioNames[i], "V1")]
    /\ \E w \in [Names(components) -> TrioWorlds] :
        /\ disk = [n \in Names(components) |-> w[n].tree]
        /\ remote = [n \in Names(components) |-> w[n].origin]

\* A manifest with two components, both working copies on the declared tag
\* with local changes and untracked files, in a repository git can or
\* cannot write.
DuoNames == <<"Alpha", "Beta">>
DuoWorlds ==
    {World([TaggedV1 EXCEPT !.dirty = TRUE, !.untracked = TRUE,
                            !.gitWritable = w], NoOrigin) : w \in BOOLEAN}

DuoWorld ==
    /\ components = [i \in 1..Len(DuoNames) |-> Component(DuoNames[i], "V1")]
    /\ \E w \in [Names(components) -> DuoWorlds] :
        /\ disk = [n \in Names(components) |-> w[n].tree]
        /\ remote = [n \in Names(components) |-> w[n].origin]

InitApp ==
    /\ SoloWorld \/ DuoWorld \/ TrioWorld
    /\ now = RecentWindow + 1
    /\ cwd = OrigDir
    /\ last = NoCall
    /\ AppIdle
    /\ IntakeIdle
    /\ PathsIdle

NextApp ==
    \/ RunCheck \/ ThreadProceeds \/ CheckNext \/ FinishCheck
    \/ UpdateSelected \/ UpdateNext \/ FinishUpdate
    \/ RevertSelected \/ RevertNext \/ FinishRevert

SpecApp == InitApp /\ [][NextApp]_vars

\* ------------------------------------------------- a session at the window
\* Time passes while no loop runs.  The instants looked at: the start, one
\* second less than an hour later, and an hour later.
ClockInstants ==
    {RecentWindow + 1, 2 * RecentWindow, 2 * RecentWindow + 1}
Tick ==
    /\ Ready
    /\ \E t \in ClockInstants :
        /\ t > now
        /\ now' = t
    /\ UNCHANGED <<desk, race, paths, intake, components, disk, remote, cwd, last,
                   app>>

\* A manifest with two components declared at V1.  Each is a directory with
\* an old VERSION file of V2 or one that cannot be read, a working copy
\* tagged V1 with local changes, or a working copy tagged V2 with local
\* changes in which git ignores VERSION.
SessionWorlds ==
    {World(t, NoOrigin) :
        t \in {DirTree(FALSE, 0, NoTags, Absent, FALSE, FALSE, FALSE, Old("V2")),
               DirTree(FALSE, 0, NoTags, Absent, FALSE, FALSE, FALSE,
                       Old(Unreadable)),
               [TaggedV1 EXCEPT !.dirty = TRUE, !.untracked = TRUE],
               DirTree(TRUE, 0, [NoTags EXCEPT !["V2"] = Lightweight(0)],
                       Absent, TRUE, FALSE, TRUE, Old("V2"))}}

InitSession ==
    /\ components = [i \in 1..Len(DuoNames) |-> Component(DuoNames[i], "V1")]
    /\ \E w \in [Names(components) -> SessionWorlds] :
        /\ disk = [n \in Names(components) |-> w[n].tree]
        /\ remote = [n \in Names(components) |-> w[n].origin]
    /\ now = RecentWindow + 1
    /\ cwd = OrigDir
    /\ last = NoCall
    /\ AppIdle
    /\ IntakeIdle
    /\ PathsIdle

NextSession == NextApp \/ ThreadReturns \/ ClearResults \/ Tick

SpecSession == InitSession /\ [][NextSession]_vars

\* ------------------------------------------- the two threads of the window
\* The check runs in its own thread while the main thread answers to the
\* buttons Update Selected and Revert Changes, which are never disabled.
\* Both threads enter and leave directories with os.chdir, which moves the
\* one working directory of the process.  This specification follows the
\* working directory through the steps of the two loops; what git answers
\* is not followed: the check makes a row in both tables for each
\* component, as it does when each has local changes on its tag.

\* check_component_tag, line 225: original_dir = os.getcwd()
CheckSaves ==
    /\ phase = "checking" /\ queue # <<>> /\ pc.check = "idle"
    /\ original_dirs' = [original_dirs EXCEPT !.check = cwd]
    /\ pc' = [pc EXCEPT !.check = "enter"]
    /\ UNCHANGED <<batch, ran, desk, paths, intake, components, world, cwd,
                   last, app>>

\* check_component_tag, line 226: os.chdir(resolved_path)
CheckEnters ==
    /\ pc.check = "enter"
    /\ cwd' = Chdir(cwd, components[Head(queue)].module_name)
    /\ pc' = [pc EXCEPT !.check = "git"]
    /\ UNCHANGED <<original_dirs, batch, ran, desk, paths, intake, components,
                   world, last, app>>

\* check_component_tag, lines 229-251: git rev-parse, describe, rev-list and
\* status, none of them given a path.
CheckRunsGit ==
    /\ pc.check = "git"
    /\ ran' = Command("check", components[Head(queue)].module_name, "git", cwd)
    /\ pc' = [pc EXCEPT !.check = "leave"]
    /\ UNCHANGED <<original_dirs, batch, desk, paths, intake, components,
                   world, cwd, last, app>>

\* check_component_tag, line 254 or 278: os.chdir(original_dir); then the
\* rows of the component are made (lines 440-482) and the loop goes on.
CheckLeaves ==
    /\ pc.check = "leave"
    /\ cwd' = ChdirBack(original_dirs.check, cwd)
    /\ pc' = [pc EXCEPT !.check = "idle"]
    /\ LET name == components[Head(queue)].module_name
           info == ComponentInfo(
                       [NoResult EXCEPT
                          !.expected_tag = components[Head(queue)].tag,
                          !.actual_tag = components[Head(queue)].tag,
                          !.error_message =
                             "Tag is correct but there are uncommitted changes",
                          !.path_exists = TRUE], name)
       IN  /\ report' = Append(report,
                               [name |-> name, is_aligned |-> FALSE,
                                outcome |-> "UncommittedChanges",
                                error_message |-> info.error_message])
           /\ misaligned_components' = Append(misaligned_components, info)
           /\ tree_view' = Append(tree_view, MisalignedRow(info))
           /\ components_with_local_changes' =
                 Append(components_with_local_changes, LocalChange(name))
           /\ local_changes_view' =
                 Append(local_changes_view, LocalChangeRow(LocalChange(name)))
    /\ queue' = Tail(queue)
    /\ UNCHANGED <<original_dirs, batch, ran, run_button, running, retagged,
                   paths, intake, components, world, last, phase, tally,
                   processed, fresh, selected, summary>>

\* update_selected_components or revert_selected_changes up to its loop
\* (lines 658-679, 557-575): rows of one of the tables are selected, whether
\* or not a check is running.
MainStarts ==
    /\ pc.main = "idle"
    /\ \E action \in {"update", "revert"} :
        LET view == IF action = "update" THEN tree_view
                    ELSE local_changes_view
        IN  \E selection \in SUBSET (1..Len(view)) :
                /\ selection # {}
                /\ batch' = [k \in 1..Cardinality(selection) |->
                                [name |-> view[InOrder(selection, Len(view))[k]][1],
                                 action |-> action]]
    /\ pc' = [pc EXCEPT !.main = "save"]
    /\ UNCHANGED <<original_dirs, ran, desk, paths, intake, components, world,
                   cwd, last, app>>

\* Lines 730 and 588: original_dir = os.getcwd()
MainSaves ==
    /\ pc.main = "save"
    /\ original_dirs' = [original_dirs EXCEPT !.main = cwd]
    /\ pc' = [pc EXCEPT !.main = "enter"]
    /\ UNCHANGED <<batch, ran, desk, paths, intake, components, world, cwd,
                   last, app>>

\* Lines 731 and 591: os.chdir to the directory of the component.
MainEnters ==
    /\ pc.main = "enter"
    /\ cwd' = Chdir(cwd, Head(batch).name)
    /\ pc' = [pc EXCEPT !.main = IF Head(batch).action = "update"
                                  THEN "write" ELSE "git"]
    /\ UNCHANGED <<original_dirs, batch, ran, desk, paths, intake, components,
                   world, last, app>>

\* Line 734: open('VERSION', 'w'), a relative path.
MainWrites ==
    /\ pc.main = "write"
    /\ ran' = Command("main", Head(batch).name, "write VERSION", cwd)
    /\ pc' = [pc EXCEPT !.main = "git"]
    /\ UNCHANGED <<original_dirs, batch, desk, paths, intake, components,
                   world, cwd, last, app>>

\* Lines 740-766 (rev-parse, status, add, commit, tag) and 594-627
\* (rev-parse, reset, checkout, ls-files, clean), none of them given a path.
MainRunsGit ==
    /\ pc.main = "git"
    /\ ran' = Command("main", Head(batch).name, "git", cwd)
    /\ pc' = [pc EXCEPT !.main = "leave"]
    /\ UNCHANGED <<original_dirs, batch, desk, paths, intake, components,
                   world, cwd, last, app>>

\* Lines 775 and 632: os.chdir(original_dir); the loop goes on or ends.
MainLeaves ==
    /\ pc.main = "leave"
    /\ cwd' = ChdirBack(original_dirs.main, cwd)
    /\ batch' = Tail(batch)
    /\ pc' = [pc EXCEPT !.main = IF Tail(batch) = <<>> THEN "idle" ELSE "save"]
    /\ UNCHANGED <<original_dirs, ran, desk, paths, intake, components, world,
                   last, app>>

InitRace ==
    /\ components = [i \in 1..Len(DuoNames) |-> Component(DuoNames[i], "V1")]
    /\ disk = [n \in Names(components) |->
                 [TaggedV1 EXCEPT !.dirty = TRUE, !.untracked = TRUE]]
    /\ remote = [n \in Names(components) |-> NoOrigin]
    /\ now = RecentWindow + 1
    /\ cwd = OrigDir
    /\ last = NoCall
    /\ AppIdle
    /\ IntakeIdle
    /\ PathsIdle

NextRace ==
    \/ RunCheck \/ ThreadProceeds \/ FinishCheck
    \/ CheckSaves \/ CheckEnters \/ CheckRunsGit \/ CheckLeaves
    \/ MainStarts \/ MainSaves \/ MainEnters \/ MainWrites \/ MainRunsGit
    \/ MainLeaves

SpecRace == InitRace /\ [][NextRace]_vars

\* ------------------------------------------------------------ parse_cmake_file
\* A manifest is the sequence of its set(MODULES_<target> ...) declarations.
\* A declaration names its target, may start with a reference
\* "${MODULES_<group>}" (leading), and holds lines; `tight` says that the
\* closing parenthesis stands directly behind the last quote.  A line holds
\* n quoted literals and is a comment, a line with a reference to a group,
\* or neither.  A literal is known by where it stands: <<d, l, i>> is the
\* i-th literal of line l of declaration d.
MaxDecls == 2
TargetNames == {"app", "boot"}
Lit(n) == [kind |-> "literals", n |-> n]
CommentLine(n) == [kind |-> "comment", n |-> n]
ReferenceLine(n) == [kind |-> "reference", n |-> n]
Plain(lines) == [leading |-> None, lines |-> lines, tight |-> TRUE]
Including(group, lines, tight) ==
    [leading |-> group, lines |-> lines, tight |-> tight]

\* The shapes of a declaration: one record; two records on two lines; a
\* record spread over two lines; two records on one line; a commented-out
\* record before a record; another group included between two records; a
\* group included first and one record appended on the same line; a group
\* included first and two records on lines of their own.
DeclarationShapes ==
    {Plain(<<Lit(4)>>),
     Plain(<<Lit(4), Lit(4)>>),
     Plain(<<Lit(2), Lit(2)>>),
     Plain(<<Lit(8)>>),
     Plain(<<CommentLine(4), Lit(4)>>),
     Plain(<<Lit(4), ReferenceLine(0), Lit(4)>>),
     Including("app", <<Lit(4)>>, TRUE),
     Including("app", <<Lit(4), Lit(4)>>, FALSE)}
Declarations ==
    {[target |-> t, leading |-> x.leading, lines |-> x.lines,
      tight |-> x.tight] : t \in TargetNames, x \in DeclarationShapes}
RECURSIVE SeqsUpTo(_, _)
SeqsUpTo(S, n) ==
    IF n = 0 THEN {<<>>}
    ELSE LET shorter == SeqsUpTo(S, n - 1)
         IN  shorter \cup {Append(q, x) : q \in shorter, x \in S}
Manifests == SeqsUpTo(Declarations, MaxDecls) \ {<<>>}

\* re.findall(r'"([^"]*)"', line)
QuotedStrings(d, l, line) == [i \in 1..line.n |-> <<d, l, i>>]

\* Lines 67-78: the record made of the first four collected literals.
ComponentOf(current_component) ==
    [module_name |-> current_component[1],
     project_key |-> current_component[2],
     path |-> current_component[3],
     tag |-> current_component[4]]

\* Lines 49-81: the loop over the lines of one section, from line l on.
RECURSIVE SectionLines(_, _, _, _, _)
SectionLines(d, lines, l, current_component, comps) ==
    IF l > Len(lines) THEN comps
    ELSE IF lines[l].kind = "comment"
    THEN SectionLines(d, lines, l + 1, current_component, comps)
    ELSE IF lines[l].kind = "reference"
    THEN SectionLines(d, lines, l + 1, current_component, comps)
    ELSE LET extended == current_component \o QuotedStrings(d, l, lines[l])
         IN  IF Len(extended) >= 4
             THEN SectionLines(d, lines, l + 1, <<>>,
                               Append(comps, ComponentOf(extended)))
             ELSE SectionLines(d, lines, l + 1, extended, comps)

\* Lines 37-85: the sections found by the first pattern, from declaration d
\* on.  A section that starts with a reference is skipped; a section with
\* no complete record leaves the dictionary as it is; any other replaces
\* what the dictionary held for its target.
RECURSIVE FirstPattern(_, _, _)
FirstPattern(cmake_content, d, sections) ==
    IF d > Len(cmake_content) THEN sections
    ELSE LET decl == cmake_content[d]
             comps == SectionLines(d, decl.lines, 1, <<>>, <<>>)
         IN  IF decl.leading # None
             THEN FirstPattern(cmake_content, d + 1, sections)
             ELSE IF comps = <<>>
             THEN FirstPattern(cmake_content, d + 1, sections)
             ELSE FirstPattern(cmake_content, d + 1,
                               [sections EXCEPT ![decl.target] = comps])

\* All literals of a declaration, in the order of the text.
RECURSIVE LiteralsFrom(_, _, _)
LiteralsFrom(d, lines, l) ==
    IF l > Len(lines) THEN <<>>
    ELSE QuotedStrings(d, l, lines[l]) \o LiteralsFrom(d, lines, l + 1)

\* The pattern of line 89: set(MODULES_<target>, a reference, four literals
\* with nothing but white space between them, and the closing parenthesis
\* at once.
SecondPatternMatches(decl) ==
    /\ decl.leading # None
    /\ decl.tight
    /\ \A l \in 1..Len(decl.lines) : decl.lines[l].kind = "literals"
    /\ Len(LiteralsFrom(0, decl.lines, 1)) = 4

\* Lines 92-106: the matches of the second pattern, each appended to the
\* list of its target.
RECURSIVE SecondPattern(_, _, _)
SecondPattern(cmake_content, d, sections) ==
    IF d > Len(cmake_content) THEN sections
    ELSE LET decl == cmake_content[d]
             own == ComponentOf(LiteralsFrom(d, decl.lines, 1))
         IN  IF SecondPatternMatches(decl)
             THEN SecondPattern(cmake_content, d + 1,
                                [sections EXCEPT
                                    ![decl.target] = Append(@, own)])
             ELSE SecondPattern(cmake_content, d + 1, sections)

\* parse_cmake_file: the dictionary from target to records.  A target that
\* is not a key of the dictionary has the empty list here; the code never
\* stores an empty list.
parse_cmake_file(cmake_content) ==
    SecondPattern(cmake_content, 1,
        FirstPattern(cmake_content, 1, [t \in TargetNames |-> <<>>]))

\* modules_sections.keys()
Keys(sections) == {t \in TargetNames : sections[t] # <<>>}

\* ----------------------------------------------------- the start of a run
\* The targets a user can ask for: the groups of the manifest and a name
\* no manifest declares.
Askable == TargetNames \cup {"url"}

\* Lines 470-472 of main and 357-359 of run_check_thread.
ParseManifest ==
    /\ stage = "read"
    /\ modules_sections' = parse_cmake_file(manifest)
    /\ stage' = "parsed"
    /\ UNCHANGED <<desk, race, paths, manifest, requested, targets_to_check, output, checked,
                   components, world, cwd, last, app>>

\* The records of the groups the loop goes over.
RecordsOf(sections, targets) ==
    UNION {{sections[t][k] : k \in 1..Len(sections[t])} : t \in targets}

\* main, lines 478-487: --target is given or not.
MainFilter ==
    /\ stage = "parsed"
    /\ \E target \in {None} \cup Askable :
        /\ requested' = IF target = None THEN {} ELSE {target}
        /\ IF target = None
           THEN /\ targets_to_check' = Keys(modules_sections)
                /\ output' = {}
                /\ stage' = "checking"
           ELSE IF target \in Keys(modules_sections)
           THEN /\ targets_to_check' = {target}
                /\ output' = {}
                /\ stage' = "checking"
           ELSE /\ targets_to_check' = {}
                /\ output' = {"Error: Target not found", "Available targets"}
                /\ stage' = "exit 1"
    /\ UNCHANGED <<desk, race, paths, manifest, modules_sections, checked,
                   components, world, cwd, last, app>>

\* run_check_thread, lines 362-389: target_vars says whether the window
\* has check boxes for targets.
ThreadFilter ==
    /\ stage = "parsed"
    /\ \E selected_targets \in SUBSET Askable, target_vars \in BOOLEAN :
        LET found == selected_targets \cap Keys(modules_sections)
            warned == IF found # selected_targets
                      THEN {"Warning: Target not found"} ELSE {}
        IN  /\ selected_targets # {} => target_vars
            /\ requested' = selected_targets
            /\ IF selected_targets = {} /\ target_vars
               THEN /\ targets_to_check' = {}
                    /\ output' = {"No targets selected"}
                    /\ stage' = "returned"
               ELSE IF selected_targets = {}
               THEN /\ targets_to_check' = Keys(modules_sections)
                    /\ output' = {}
                    /\ stage' = "checking"
               ELSE IF found = {}
               THEN /\ targets_to_check' = {}
                    /\ output' = warned \cup
                          {"Error: None of the selected targets were found",
                           "Available targets"}
                    /\ stage' = "returned"
               ELSE /\ targets_to_check' = found
                    /\ output' = warned
                    /\ stage' = "checking"
    /\ UNCHANGED <<desk, race, paths, manifest, modules_sections, checked,
                   components, world, cwd, last, app>>

\* The loop over targets_to_check (lines 489-506 of main, 402-423 of
\* run_check_thread): every record of every group in it is checked.
CheckTargets ==
    /\ stage = "checking"
    /\ checked' = RecordsOf(modules_sections, targets_to_check)
    /\ stage' = "checked"
    /\ UNCHANGED <<desk, race, paths, manifest, modules_sections, requested, targets_to_check,
                   output, components, world, cwd, last, app>>

InitIntake ==
    /\ manifest \in Manifests
    /\ modules_sections = <<>>
    /\ stage = "read"
    /\ requested = {}
    /\ targets_to_check = {}
    /\ output = {}
    /\ checked = {}
    /\ components = <<>>
    /\ disk = <<>>
    /\ remote = <<>>
    /\ now = RecentWindow + 1
    /\ cwd = OrigDir
    /\ last = NoCall
    /\ AppIdle
    /\ PathsIdle

NextIntake == ParseManifest \/ MainFilter \/ ThreadFilter \/ CheckTargets

SpecIntake == InitIntake /\ [][NextIntake]_vars

\* ---------------------------------------------------------------- resolve_path
\* A path is a sequence of characters.  "$" followed by "C" spells the
\* placeholder ${CMAKE_CURRENT_LIST_DIR}, "$" followed by "P" another
\* placeholder such as ${PROJ_ROOT}.
MaxPathLen == 4
PathChars == {"$", "C", "P", "/", "a"}
ListDirToken == <<"$", "C">>
OtherToken == <<"$", "P">>
RECURSIVE StringsUpTo(_)
StringsUpTo(n) ==
    IF n = 0 THEN {<<>>}
    ELSE LET shorter == StringsUpTo(n - 1)
         IN  shorter \cup {Append(q, c) : q \in shorter, c \in PathChars}
Paths == StringsUpTo(MaxPathLen)
\* Directories of a CMake file; the last one ends in a character of the
\* placeholder.
Dirs == {<<"/">>, <<"/", "a">>, <<"/", "$">>}

\* s has old at position i.
OccursAt(s, i, old) ==
    /\ i + Len(old) - 1 <= Len(s)
    /\ \A k \in 1..Len(old) : s[i + k - 1] = old[k]

\* str.replace(old, new) from position i on: the occurrences of old are
\* found from the left and do not overlap.
RECURSIVE StrReplace(_, _, _, _)
StrReplace(s, i, old, new) ==
    IF i > Len(s) THEN <<>>
    ELSE IF OccursAt(s, i, old)
    THEN new \o StrReplace(s, i + Len(old), old, new)
    ELSE <<s[i]>> \o StrReplace(s, i + 1, old, new)

\* A resolution that also puts the directory in front of the path.
resolve_path_joined(p, dir) ==
    dir \o StrReplace(p, 1, ListDirToken, dir)

\* resolve_path(path, cmake_file_dir), line 122.
resolve_path(p, dir) ==
    StrReplace(p, 1, ListDirToken, dir)

\* resolve_path is called on the path, and again on what it returned.
Resolve ==
    /\ Len(resolved) < 2
    /\ resolved' = Append(resolved,
                          resolve_path(IF resolved = <<>> THEN path
                                       ELSE resolved[Len(resolved)],
                                       cmake_file_dir))
    /\ UNCHANGED <<race, desk, path, cmake_file_dir, intake, components, world, cwd, last,
                   app>>

InitResolve ==
    /\ path \in Paths
    /\ cmake_file_dir \in Dirs
    /\ resolved = <<>>
    /\ IntakeIdle
    /\ components = <<>>
    /\ disk = <<>>
    /\ remote = <<>>
    /\ now = RecentWindow + 1
    /\ cwd = OrigDir
    /\ last = NoCall
    /\ AppIdle

NextResolve == Resolve

SpecResolve == InitResolve /\ [][NextResolve]_vars

\* ====================================================== the checked claims
\* The last call was a check; its component, path, verdict and environment.
Checked == last.op = "check"
CheckedTree == disk[last.name]
Verdict == last.result
Declared == last.result.expected_tag
GitRan == CheckedTree.exists /\ CheckedTree.isdir /\ last.env.gitStarts
IsWorkingCopy(tree) == tree.exists /\ tree.isdir /\ tree.git
HasTag(tree, tag) == tree.tags[tag].kind # "none"

\* How many commits HEAD is beyond the commit of `tag`.
CommitsBeyond(tree, tag) ==
    IF IsWorkingCopy(tree) /\ HasTag(tree, tag) /\ tree.head > tree.tags[tag].at
    THEN tree.head - tree.tags[tag].at
    ELSE 0

\* C1 (as claimed): a check answers is_aligned = True only if the path
\* exists, the detected version is the declared tag, HEAD has no commit
\* beyond the tagged commit and the working copy has no modified or staged
\* file, also when the version came from VERSION or manifest.json of a
\* working copy whose HEAD has no exact tag.
C1_AlignedOnlyWhenClean ==
    (Checked /\ last.env = QuietEnv /\ Verdict.is_aligned) =>
        /\ CheckedTree.exists
        /\ Verdict.actual_tag = Declared
        /\ Verdict.outcome = "Aligned"
        /\ CommitsBeyond(CheckedTree, Declared) = 0
        /\ ~(IsWorkingCopy(CheckedTree) /\ CheckedTree.dirty)

\* The conditions of the decision order, as facts of the path.
DetectedTag(tree, env) ==
    IF IsWorkingCopy(tree) /\ env.gitStarts /\ GitDescribeExact(tree) # None
    THEN GitDescribeExact(tree)
    ELSE IF tree.version \in Tags THEN tree.version
    ELSE IF tree.manifest \in Tags THEN tree.manifest
    ELSE None

SuspicionRaised(tree, tag, env, time) ==
    IF IsWorkingCopy(tree) /\ env.gitStarts /\ GitDescribeExact(tree) # None
    THEN ~check_tag_reuse(tree, tag, env).ok
    ELSE tree.version = tag /\ time - tree.mtime < RecentWindow

\* The outcome the decision order of the specification gives: the first
\* condition that holds.
FirstMatch(tree, tag, env, time) ==
    IF ~tree.exists THEN "PathMissing"
    ELSE IF DetectedTag(tree, env) \notin {None, tag} THEN "TagMismatch"
    ELSE IF DetectedTag(tree, env) = tag /\ SuspicionRaised(tree, tag, env, time)
         THEN "TagIntegritySuspect"
    ELSE IF CommitsBeyond(tree, tag) > 0 THEN "CommitsAheadOfTag"
    ELSE IF IsWorkingCopy(tree) /\ env.gitStarts /\ GitStatusNonEmpty(tree)
         THEN "UncommittedChanges"
    ELSE IF DetectedTag(tree, env) = None THEN "Undeterminable"
    ELSE "Aligned"

\* C2 (as claimed): the outcome of a check is the first condition that
\* holds in the order PathMissing, TagMismatch, TagIntegritySuspect,
\* CommitsAheadOfTag, UncommittedChanges, Undeterminable, else Aligned.
\* Stated for the checks git answers without failure, of paths that are no
\* working copy or a working copy that holds the declared tag.
C2_FirstMatchWins ==
    (/\ Checked /\ last.env = QuietEnv /\ ~Verdict.raised
     /\ IsWorkingCopy(CheckedTree) => HasTag(CheckedTree, Declared)) =>
        Verdict.outcome = FirstMatch(CheckedTree, Declared, last.env, now)

\* C3: for a path that does not exist the check answers PathMissing (not
\* aligned, actual tag None, path_exists False) whatever else holds, runs no
\* external command and leaves the working directory where it was.
C3_PathMissing ==
    (Checked /\ ~CheckedTree.exists) =>
        /\ Verdict.outcome = "PathMissing"
        /\ ~Verdict.is_aligned
        /\ Verdict.actual_tag = None
        /\ ~Verdict.path_exists
        /\ ~Verdict.raised
        /\ Verdict.cmds = <<>>
        /\ Verdict.cwd = OrigDir /\ cwd = OrigDir

C3_Witness == Checked /\ ~CheckedTree.exists

\* C7 (as claimed): a working copy that holds the declared tag, with HEAD
\* n >= 1 commits beyond it and nothing uncommitted, is reported as
\* CommitsAheadOfTag(n).
C7_CommitsAheadReported ==
    (/\ Checked /\ GitRan /\ ~last.env.timeout
     /\ CommitsBeyond(CheckedTree, Declared) >= 1
     /\ TagsAtHead(CheckedTree) = {}
     /\ ~GitStatusNonEmpty(CheckedTree)) =>
        /\ Verdict.outcome = "CommitsAheadOfTag"
        /\ Verdict.commit_count = CommitsBeyond(CheckedTree, Declared)

\* The declared tag is an annotated tag on HEAD whose tagger date is earlier
\* than the date of its commit.
ReusedTagOnHead ==
    /\ Checked /\ GitRan /\ CheckedTree.git
    /\ Declared \in TagsAtHead(CheckedTree)
    /\ CheckedTree.tags[Declared].kind = "ann"
    /\ CheckedTree.tags[Declared].date
          < GitCommitDate(CheckedTree, CheckedTree.tags[Declared].at)

WithMarkers(tree, k) ==
    [tree EXCEPT !.version = k.version, !.mtime = k.mtime,
                 !.manifest = k.manifest]
Found(tree, env) ==
    tree.exists /\ GitProbe(tree, env, OrigDir, last.name).found
Recheck(tree) ==
    check_component_tag(components[1], tree, last.env, now, OrigDir)

ProbeFails(tree) ==
    tree.exists /\ (~tree.isdir \/ (~tree.git /\ tree.version = Unreadable))

\* The last check batch is over, with or without an exception.
CheckBatchOver == phase \in {"checked", "aborted"}

ReportedNames == {report[k].name : k \in 1..Len(report)}

\* C4 (as claimed): when a check batch over several components is over,
\* every component has been checked, and a component whose probe failed has
\* a row that is not aligned and carries a diagnostic; no failure of one
\* probe ends the batch.
C4_BatchSurvivesProbeFailure ==
    (CheckBatchOver /\ Len(components) > 1) =>
        /\ phase = "checked"
        /\ Names(components) \subseteq ReportedNames
        /\ \A k \in 1..Len(report) :
              ProbeFails(disk[report[k].name]) =>
                  ~report[k].is_aligned /\ report[k].error_message # None

\* The iterations of the last reconciliation batch that printed a
\* diagnostic, and those that printed none.
Troubled == {k \in 1..Len(processed) : processed[k].problem # None}
Untroubled == {k \in 1..Len(processed) : processed[k].problem = None}

\* C5 (as claimed): when an update batch over three components, of which
\* one failed and two succeeded, is over, the two are counted as cloned or
\* updated and the one as failed, wherever it stood in the batch.
C5_FailureCountedAlone ==
    (/\ phase = "updated" /\ Len(processed) = 3
     /\ Cardinality(Troubled) = 1) =>
        /\ tally.failed_count = 1
        /\ tally.cloned_count + tally.updated_count = 2
        /\ \A k \in Troubled : processed[k].counted = "failed"
        /\ \A k \in Untroubled : processed[k].counted \in {"cloned", "updated"}

\* C6: between the calls and iterations of sequential execution the working
\* directory is the one the process started in: check_component_tag,
\* clone_component and the iterations of the update and revert loops leave
\* it where they found it, on every exit path.
C6_WorkingDirectoryRestored ==
    /\ cwd = OrigDir
    /\ last.result.cwd = OrigDir

\* An iteration that entered the directory and then failed has run, and so
\* has a check of a directory.
C6_Witness ==
    /\ cwd = OrigDir
    /\ \E k \in 1..Len(processed) :
          /\ processed[k].counted = "failed"
          /\ processed[k].problem \in {"Error updating: VERSION",
                                       "Failed to checkout tag",
                                       "Error reverting: Not a git repository"}
          /\ disk[processed[k].name].isdir

\* The repository behind the clone URL of the checked component.
CheckedOrigin == remote[last.name].tree

\* git describe names the commit of `tag` by `tag`.
TagNamesItsCommit(tree, tag) ==
    /\ HasTag(tree, tag)
    /\ GitDescribeExact([tree EXCEPT !.head = tree.tags[tag].at]) = tag

\* Nothing about the tag looks reused: an annotated tag is not older than
\* its commit, and a VERSION file in its tree holds the tag's name.
TagLooksUntouched(tree, tag) ==
    /\ tree.tags[tag].kind = "ann" =>
          tree.tags[tag].date >= GitCommitDate(tree, tree.tags[tag].at)
    /\ GitCommittedVersion(tree, tree.tags[tag].at) \in {Absent, tag}

\* The last call checked a component that the reconciliation before this
\* check batch cloned with success, git answering without failure.
Rechecked == Checked /\ last.acquired /\ last.env = QuietEnv

C11_UntrackedAloneIsAligned ==
    (/\ Checked /\ last.env = QuietEnv /\ IsWorkingCopy(CheckedTree)
     /\ GitDescribeExact(CheckedTree) = Declared
     /\ TagLooksUntouched(CheckedTree, Declared)
     /\ ~CheckedTree.dirty /\ ~VersionDelta(CheckedTree)
     /\ CheckedTree.untracked) =>
        Verdict.outcome = "Aligned" /\ Verdict.is_aligned

\* ------------------------------------------------- the reconciliation loops
Reconciling == phase \in {"updating", "updated", "reverting", "reverted"}
Done(action) ==
    {k \in 1..Len(processed) : processed[k].action = action}
Has(cmds, step) == \E i \in 1..Len(cmds) : cmds[i] = step
Before(cmds, a, b) ==
    \A i, j \in 1..Len(cmds) : (cmds[i] = a /\ cmds[j] = b) => i < j
Final(cmds) == cmds[Len(cmds)]
\* The tag the manifest declares for a component.
DeclaredFor(name) ==
    components[CHOOSE i \in 1..Len(components) :
                  components[i].module_name = name].tag
GitMutations == {"add", "commit", "tag -d", "tag -f"}
GitCommands == GitMutations \cup {"rev-parse", "status", "tag -l"}

\* C12 (as claimed): a Retag of a working copy in which a git step raised,
\* or after which the tag was not found, is counted as failed and not as
\* updated.
C12_RetagFailureCounted ==
    Reconciling =>
        \A k \in Done("retag") :
            (/\ Has(processed[k].cmds, "rev-parse")
             /\ processed[k].problem = "Warning: Git operation failed") =>
                processed[k].counted = "failed"

\* C13 (as claimed): after the Retag of any selected component whose path
\* exists, VERSION holds the declared tag; it was written before every git
\* command, and the git mutations ran only in a working copy.
C13_VersionHoldsDeclaredTag ==
    Reconciling =>
        \A k \in Done("retag") :
            LET tree == disk[processed[k].name]
                cmds == processed[k].cmds
            IN  /\ tree.version = DeclaredFor(processed[k].name)
                /\ Has(cmds, "write VERSION")
                /\ \A g \in GitCommands : Before(cmds, "write VERSION", g)
                /\ (\E g \in GitMutations : Has(cmds, g)) => tree.git

\* The path is a directory in which the VERSION file can be written.
CanHoldVersion(tree) ==
    tree.exists /\ tree.isdir /\ tree.writable /\ tree.version # Unreadable

\* C13 (amended): ... for every selected component whose path is a
\* directory in which VERSION can be written; for a path that is a file, or
\* where VERSION cannot be written, the component is counted as failed and
\* no git command is issued.
C13_WritableVersionHoldsDeclaredTag ==
    Reconciling =>
        \A k \in Done("retag") :
            LET tree == disk[processed[k].name]
                cmds == processed[k].cmds
            IN  /\ CanHoldVersion(tree) =>
                    /\ tree.version = DeclaredFor(processed[k].name)
                    /\ Has(cmds, "write VERSION")
                /\ ~CanHoldVersion(tree) =>
                    /\ processed[k].counted = "failed"
                    /\ \A g \in GitCommands : ~Has(cmds, g)
                /\ \A g \in GitCommands : Before(cmds, "write VERSION", g)
                /\ \A g \in GitCommands :
                      Has(cmds, g) => Has(cmds, "write VERSION")
                /\ (\E g \in GitMutations : Has(cmds, g)) => tree.git

\* An update batch wrote the declared tag over another VERSION in a
\* working copy, before the git commands that committed it and moved the
\* tag.
C13_Witness ==
    /\ phase = "updated"
    /\ \E k \in Done("retag") :
        /\ disk[processed[k].name].version = DeclaredFor(processed[k].name)
        /\ Has(processed[k].cmds, "tag -f")
        /\ disk[processed[k].name].git
        /\ GitCommittedVersion(disk[processed[k].name], 0)
              # DeclaredFor(processed[k].name)

\* C14: clone_component makes the parent directory, clones and checks the
\* declared tag out, in this order; a step that fails is the last one taken
\* and the message names it; success is returned only after a clone and a
\* checkout that both succeeded, and then HEAD is on the declared tag.
C14_CloneStepsInOrder ==
    Reconciling =>
        \A k \in Done("acquire") :
            LET e == processed[k]
                tree == disk[e.name]
            IN  /\ Before(e.cmds, "makedirs", "clone")
                /\ Before(e.cmds, "clone", "checkout")
                /\ Has(e.cmds, "checkout") => Has(e.cmds, "clone")
                /\ (e.counted = "failed") = (e.problem # None)
                /\ e.problem = "Failed to create directory" =>
                      Final(e.cmds) = "makedirs" /\ ~tree.exists
                /\ Final(e.cmds) = "makedirs" =>
                      e.problem = "Failed to create directory"
                /\ (e.problem \in {"Failed to clone repository",
                                   "Error cloning component"})
                      <=> (Final(e.cmds) = "clone")
                /\ e.problem = "Failed to checkout tag" =>
                      Final(e.cmds) = "checkout"
                /\ e.counted = "cloned" =>
                      /\ Final(e.cmds) = "checkout"
                      /\ IsWorkingCopy(tree)
                      /\ HasTag(tree, DeclaredFor(e.name))
                      /\ tree.head = tree.tags[DeclaredFor(e.name)].at
                /\ e.counted \in {"cloned", "failed"}

\* One update batch acquired a component and failed to acquire another.
C14_Witness ==
    /\ phase = "updated"
    /\ \E k \in Done("acquire") : processed[k].counted = "cloned"
    /\ \E k \in Done("acquire") :
          processed[k].problem = "Failed to clone repository"

\* C15: in Revert `git clean` runs only after the tracked changes were
\* discarded, untracked files were listed and the user said yes for this
\* component; when the user says no nothing untracked is removed and the
\* warning that untracked files remain is printed.
C15_CleanOnlyWhenConfirmed ==
    Reconciling =>
        \A k \in Done("revert") :
            LET e == processed[k]
                tree == disk[e.name]
            IN  /\ Has(e.cmds, "clean") =>
                      /\ e.answer = "yes"
                      /\ Has(e.cmds, "checkout") /\ Has(e.cmds, "ls-files")
                      /\ Before(e.cmds, "checkout", "ls-files")
                      /\ Before(e.cmds, "ls-files", "askyesno")
                      /\ Before(e.cmds, "askyesno", "clean")
                      /\ ~tree.dirty
                /\ Has(e.cmds, "askyesno") =>
                      Has(e.cmds, "ls-files") /\ tree.gitWritable
                /\ e.answer = "no" =>
                      /\ ~Has(e.cmds, "clean")
                      /\ GitUntrackedListed(tree)
                      /\ e.problem = "Warning: Untracked files remain"
                /\ e.answer = "yes" =>
                      Has(e.cmds, "clean") /\ ~GitUntrackedListed(tree)

\* One revert batch was asked twice about untracked files: the answer was
\* yes for one component and no for another.
C15_Witness ==
    /\ phase = "reverted"
    /\ \E k \in Done("revert") : processed[k].answer = "yes"
    /\ \E k \in Done("revert") : processed[k].answer = "no"

\* How many iterations incremented a counter.
Counted(counter) ==
    Cardinality({k \in 1..Len(processed) : processed[k].counted = counter})

\* C16: in a reconciliation batch every selected component is processed
\* once and incremented one counter: while the loop runs the processed and
\* the pending rows are the selected ones, and at the end the counts add up
\* to the number of selected components.
C16_ProcessedExactlyOnce ==
    Reconciling =>
        /\ Len(processed) + Len(queue) = Cardinality(selected)
        /\ {queue[i] : i \in 1..Len(queue)} \subseteq selected
        /\ \A i, j \in 1..Len(queue) : i < j => queue[i] < queue[j]
        /\ \A i, j \in 1..Len(processed) :
              i # j => processed[i].name # processed[j].name
        /\ tally.cloned_count = Counted("cloned")
        /\ tally.updated_count = Counted("updated")
        /\ tally.failed_count = Counted("failed")
        /\ tally.reverted_count = Counted("reverted")
        /\ Counted("cloned") + Counted("updated") + Counted("failed")
              + Counted("reverted") = Len(processed)
        /\ phase = "updated" =>
              /\ tally.cloned_count + tally.updated_count + tally.failed_count
                    = Cardinality(selected)
              /\ tally.reverted_count = 0
        /\ phase = "reverted" =>
              /\ tally.reverted_count + tally.failed_count
                    = Cardinality(selected)
              /\ tally.cloned_count = 0 /\ tally.updated_count = 0

\* An update batch over three selected components ended with one cloned,
\* one updated and one failed.
C16_Witness ==
    /\ phase = "updated" /\ Cardinality(selected) = 3
    /\ tally.cloned_count = 1 /\ tally.updated_count = 1
    /\ tally.failed_count = 1

\* C20 (as claimed): the summary of a check batch says that all components
\* are aligned exactly when no component of the batch was misaligned, and
\* when some are it lists each with its reason and gives their percentage.
C20_SummaryTellsAlignment ==
    phase = "checked" =>
        /\ summary.printed
        /\ summary.all_aligned <=> (misaligned_components = <<>>)
        /\ misaligned_components # <<>> =>
              /\ summary.misaligned
              /\ Len(summary.listed) = Len(misaligned_components)
              /\ \A k \in 1..Len(misaligned_components) :
                    /\ summary.listed[k].name
                          = misaligned_components[k].module_name
                    /\ summary.listed[k].reason
                          = misaligned_components[k].error_message
              /\ summary.percentage
                    = <<Percentage(Len(misaligned_components), Len(report))>>

\* ---------------------------------------------- claims about the manifest
Parsed == stage \in {"parsed", "checking", "checked", "exit 1", "returned"}
Filtered == stage \in {"checking", "checked", "exit 1", "returned"}
DeclarationsOf(group) ==
    {d \in 1..Len(manifest) : manifest[d].target = group}

\* The records a declaration adds on lines of four literals each.
OwnRecords(d) ==
    [l \in 1..Len(manifest[d].lines) |->
        ComponentOf(QuotedStrings(d, l, manifest[d].lines[l]))]

\* Declaration d is the only one of its group; it starts by including
\* another group, declared before it without inclusions, and then adds
\* records of its own, four literals a line.
IncludesEarlierGroup(d) ==
    /\ manifest[d].leading \notin {None, manifest[d].target}
    /\ DeclarationsOf(manifest[d].target) = {d}
    /\ DeclarationsOf(manifest[d].leading) # {}
    /\ \A e \in DeclarationsOf(manifest[d].leading) :
          e < d /\ manifest[e].leading = None
    /\ \A l \in 1..Len(manifest[d].lines) :
          manifest[d].lines[l] = Lit(4)

\* C17 (as claimed): the parse result of a group whose declaration starts
\* by including another group holds the records of that group followed by
\* the group's own records.
C17_IncludedGroupMaterialized ==
    Parsed =>
        \A d \in 1..Len(manifest) :
            IncludesEarlierGroup(d) =>
                modules_sections[manifest[d].target]
                    = modules_sections[manifest[d].leading] \o OwnRecords(d)

\* The literals of a declaration that are not commented out.
RECURSIVE LiveLiterals(_, _)
LiveLiterals(lines, l) ==
    IF l > Len(lines) THEN 0
    ELSE (IF lines[l].kind = "literals" THEN lines[l].n ELSE 0)
            + LiveLiterals(lines, l + 1)

\* What the claim counts for the declarations d..Len(manifest) of a group:
\* the complete runs of four literals of the declarations that do not
\* start with a reference, and one for each single-line append.
RECURSIVE ClaimedCount(_, _)
ClaimedCount(group, d) ==
    IF d > Len(manifest) THEN 0
    ELSE (IF manifest[d].target # group THEN 0
          ELSE IF manifest[d].leading = None
          THEN LiveLiterals(manifest[d].lines, 1) \div 4
          ELSE IF SecondPatternMatches(manifest[d]) THEN 1
          ELSE 0)
            + ClaimedCount(group, d + 1)

\* C18 (as claimed): for every group the number of parsed records is the
\* number of complete runs of four literals in its pattern-(a)
\* declarations plus the number of its pattern-(b) appends.
C18_RecordCountMatchesLiterals ==
    Parsed =>
        \A group \in TargetNames :
            Len(modules_sections[group]) = ClaimedCount(group, 1)

\* C19 (as claimed): when the filter names a group that the parse did not
\* return, the run fails, lists the available groups and checks nothing.
C19_UnknownTargetFails ==
    (Filtered /\ ~(requested \subseteq Keys(modules_sections))) =>
        /\ stage \in {"exit 1", "returned"}
        /\ "Available targets" \in output
        /\ targets_to_check = {}
        /\ checked = {}

\* ------------------------------------------------- claims about resolve_path
Contains(s, old) == \E i \in 1..Len(s) : OccursAt(s, i, old)
Occurrences(s, old) == Cardinality({i \in 1..Len(s) : OccursAt(s, i, old)})

\* C21: on a path without the placeholder of the list directory,
\* resolve_path returns the path as it is, other placeholders included, and
\* returns the same when applied to its own result; on any path the other
\* placeholders stay.
C21_ResolveIdempotent ==
    /\ (~Contains(path, ListDirToken) /\ Len(resolved) >= 1) =>
            resolved[1] = path
    /\ (~Contains(path, ListDirToken) /\ Len(resolved) = 2) =>
            resolved[2] = resolved[1]
    /\ Len(resolved) >= 1 =>
            Occurrences(resolved[1], OtherToken)
                >= Occurrences(path, OtherToken)

\* A path with another placeholder and without that of the list directory
\* was resolved twice.
C21_Witness ==
    /\ Contains(path, OtherToken) /\ ~Contains(path, ListDirToken)
    /\ Len(resolved) = 2

\* ------------------------------------------- claims about the tag integrity
\* Method 1 found no tag for HEAD: the verdict comes from the files.
GitSilent ==
    ~GitProbe(CheckedTree, last.env, OrigDir, last.name).found

\* C22 (as claimed): an annotated tag whose tagger date is not earlier than
\* the date of its commit passes the integrity check whatever the VERSION
\* file of the tagged tree holds.
C22_TimestampsSettleAnnotated ==
    (/\ Checked /\ last.env = QuietEnv /\ IsWorkingCopy(CheckedTree)
     /\ GitDescribeExact(CheckedTree) = Declared
     /\ CheckedTree.tags[Declared].kind = "ann"
     /\ ~TagPredatesCommit(CheckedTree.tags[Declared].date,
                           GitCommitDate(CheckedTree,
                                         CheckedTree.tags[Declared].at))) =>
        /\ check_tag_reuse(CheckedTree, Declared, last.env).ok
        /\ Verdict.outcome # "TagIntegritySuspect"

\* The last check reached the integrity check and a git call of it timed
\* out.
TimedOut ==
    /\ Checked /\ last.env.timeout
    /\ ~GitSilent /\ CheckedTree.exists
    /\ GitDescribeExact(CheckedTree) = Declared

\* C23: a time-out in the integrity check gives a result, not an
\* exception: the component is not aligned, its row carries "Git command
\* timed out", and the batch goes on with the components that follow.
C23_TimeoutIsAFailedCheck ==
    TimedOut =>
        /\ ~Verdict.raised /\ ~Verdict.is_aligned
        /\ Verdict.error_message = "Git command timed out"
        /\ check_tag_reuse(CheckedTree, Declared, last.env)
              = IntegrityFailed("Git command timed out")
        /\ phase \in {"checking", "checked"}
        /\ Len(report) + Len(queue) = Len(components)
        /\ report[Len(report)].name = last.name
        /\ report[Len(report)].error_message = "Git command timed out"
        /\ misaligned_components[Len(misaligned_components)].module_name
              = last.name

\* The first component of a batch of three timed out and the other two
\* were checked after it.
C23_Witness ==
    /\ phase = "checked" /\ Len(report) = 3
    /\ report[1].error_message = "Git command timed out"
    /\ last.name = report[3].name

\* C24: when the VERSION file gives the declared tag, the component is
\* Aligned exactly when the file was modified at least RecentWindow seconds
\* before the check; otherwise it is not aligned and the diagnostic speaks
\* of a recent modification.
C24_RecentVersionSuspect ==
    (/\ Checked /\ CheckedTree.exists /\ GitSilent
     /\ CheckedTree.version = Declared) =>
        /\ Verdict.actual_tag = Declared
        /\ Verdict.is_aligned <=> (now - CheckedTree.mtime >= RecentWindow)
        /\ Verdict.is_aligned => Verdict.outcome = "Aligned"
        /\ ~Verdict.is_aligned =>
              /\ Verdict.outcome = "TagIntegritySuspect"
              /\ Verdict.error_message =
                    "VERSION file was recently modified, possible tag reuse"

\* A VERSION file with the declared tag, modified exactly RecentWindow
\* seconds before the check, was found aligned.
C24_Witness ==
    /\ Checked /\ CheckedTree.exists /\ GitSilent
    /\ CheckedTree.version = Declared
    /\ now - CheckedTree.mtime = RecentWindow
    /\ Verdict.is_aligned

CheckedAfterRetag(how) == Checked /\ last.retagged = how

\* C27: after a Retag of a directory that is not a working copy, a check
\* made less than RecentWindow seconds later does not find the component
\* Aligned: VERSION holds the declared tag and counts as recently modified.
C27_RetaggedPlainSuspectWithinHour ==
    (/\ CheckedAfterRetag("plain") /\ phase = "checking"
     /\ now - last.retagged_at < RecentWindow) =>
        /\ ~Verdict.raised /\ ~Verdict.is_aligned
        /\ CheckedTree.version = Declared
        /\ Verdict.actual_tag = Declared
        /\ Verdict.outcome = "TagIntegritySuspect"
        /\ Verdict.error_message =
              "VERSION file was recently modified, possible tag reuse"

\* A directory was retagged at the start and checked one second less than
\* an hour later.
C27_Witness ==
    /\ CheckedAfterRetag("plain") /\ phase = "checking"
    /\ now - last.retagged_at = RecentWindow - 1
    /\ ~Verdict.is_aligned

RECURSIVE UncommittedIn(_)
UncommittedIn(rows) ==
    IF rows = <<>> THEN <<>>
    ELSE IF Head(rows).outcome = "UncommittedChanges"
    THEN <<Head(rows).name>> \o UncommittedIn(Tail(rows))
    ELSE UncommittedIn(Tail(rows))

\* C29: when no check is running, each table shows its list row by row,
\* the list of local changes holds the components found with
\* UncommittedChanges, and a reconciliation or a revert processes the
\* components shown in the rows that were selected.
C29_RowsShowTheLists ==
    phase \notin {"started", "checking"} =>
        /\ Len(tree_view) = Len(misaligned_components)
        /\ \A i \in 1..Len(tree_view) :
              tree_view[i] = MisalignedRow(misaligned_components[i])
        /\ Len(local_changes_view) = Len(components_with_local_changes)
        /\ \A i \in 1..Len(local_changes_view) :
              local_changes_view[i] =
                  LocalChangeRow(components_with_local_changes[i])
        /\ [i \in 1..Len(components_with_local_changes) |->
               components_with_local_changes[i].module_name]
              = UncommittedIn(report)
        /\ phase \in {"updating", "updated"} =>
              \A k \in 1..Len(processed) :
                  processed[k].name =
                      tree_view[InOrder(selected, Len(tree_view))[k]][1]
        /\ phase \in {"reverting", "reverted"} =>
              \A k \in 1..Len(processed) :
                  processed[k].name =
                      local_changes_view[
                          InOrder(selected, Len(local_changes_view))[k]][1]

\* After a check that filled both tables, the second row of the table of
\* misaligned components was selected and reconciled.
C29_Witness ==
    /\ phase = "updated" /\ selected = {2}
    /\ Len(tree_view) = 2 /\ Len(local_changes_view) = 1
    /\ Len(processed) = 1 /\ processed[1].name = tree_view[2][1]

\* C30: the button is disabled exactly while a check batch is in progress,
\* there is never more than one, and after each ending of a batch (the end
\* of the loop, the early return, an exception) the button is enabled.
C30_OneBatchAtATime ==
    /\ running \in {0, 1}
    /\ run_button = "disabled" <=> running = 1
    /\ running = 1 <=> phase \in {"started", "checking"}
    /\ phase \in {"returned", "checked", "aborted"} => run_button = "normal"

\* A batch was ended by an exception after its first row and the button is
\* enabled again.
C30_Witness ==
    /\ phase = "aborted" /\ Len(report) = 1
    /\ run_button = "normal" /\ running = 0

\* ------------------------------------------- claims about the two threads
\* No loop is inside an iteration and no check batch is in progress.
BothEnded ==
    /\ pc.check = "idle" /\ pc.main = "idle"
    /\ phase \notin {"started", "checking"}

\* C26 (as claimed): while a check batch runs beside a reconciliation or a
\* revert, every command that relies on the working directory runs in the
\* directory of the component it was issued for, and when both have ended
\* the working directory is the one the process started in.
C26_CommandsRunInTheirDirectory ==
    /\ ran.by # None => ran.in = ran.for
    /\ BothEnded => cwd = OrigDir

====
